---- MODULE Spec2Model ----
(***************************************************************************)
(* State-machine model of the staking contract YourContract                *)
(* (packages/hardhat/contracts/YourContract.sol): game creation, the       *)
(* commit-reveal randomness, the staking ledger, the abandonment and       *)
(* withdrawal timeouts and the payout settlement.                          *)
(*                                                                         *)
(* Every public function of the contract is an operator from the contract  *)
(* storage (a record "w": nextGameId, games, balance and the history of   *)
(* the transfers made, sent and received) and the call's                   *)
(* arguments to a result [err, w]: err is the revert reason of the first   *)
(* failing require ("" when the call returns), w the storage after the     *)
(* call.  A reverted call returns the storage it was given, as the EVM     *)
(* discards every write of a reverted transaction.                         *)
(***************************************************************************)
EXTENDS Integers, Sequences, FiniteSets, TLC

\* ------------------------------------------------------------------ bounds
NumAddr == 2          \* accounts 1..NumAddr; 0 is address(0)
MaxGames == 2         \* game ids 0..MaxGames are read; 0 is never allocated
SoloGames == 1        \* games created under Spec (its other id is never allocated)
MaxWinners == 2       \* longest _winners array passed to payout
MaxSecret == 1        \* bytes32 reveal values 0..MaxSecret
LargeStake == 100     \* a stake whose pool has a non-zero 1% cut
MaxTime == 451        \* no block is mined with a later timestamp
MaxBlock == 3         \* no block is mined with a higher number
FundBlocks == 2       \* the same under SpecFunds
LapseBlock == 260     \* the same under SpecEntropy: past the window of blockhash

\* ------------------------------------------------------- program constants
PAYOUT_TIMEOUT == 300
CREATOR_TIMEOUT == 150
BLOCKHASH_WINDOW == 256   \* EVM: blockhash(n) is kept for the 256 most recent blocks

ZeroAddr == 0
Addr == 1..NumAddr
GameIds == 0..MaxGames
Secrets == 0..MaxSecret
Stakes == {0, 1, LargeStake}
Urls == {"", "http://game", "http://mirror"}

VARIABLES
    nextGameId,       \* uint256 public nextGameId
    games,            \* mapping(uint256 => Game) public games
    balance,          \* address(this).balance
    blockNumber,      \* block.number
    blockTimestamp,   \* block.timestamp
    sent,             \* history: per game, total value the contract transferred out for it
    received,         \* history: per account, total value the contract transferred to it
    calls             \* history: per game and function, the calls that returned

vars == <<nextGameId, games, balance, blockNumber, blockTimestamp, sent, received, calls>>

\* The contract storage and balance as one value, the argument of every function.
World ==
    [nextGameId |-> nextGameId, games |-> games, balance |-> balance,
     sent |-> sent, received |-> received]

\* struct Game, every field at its default value.
EmptyGame ==
    [ gamemaster |-> ZeroAddr, creator |-> ZeroAddr, stakeAmount |-> 0, open |-> FALSE,
      players |-> <<>>, hasJoined |-> [a \in Addr |-> FALSE],
      hasOpened |-> FALSE, hasClosed |-> FALSE,
      committedHash |-> 0, commitBlockNumber |-> 0, commitBlockHash |-> 0,
      revealValue |-> 0, randomHash |-> 0,
      hasCommitted |-> FALSE, hasRevealed |-> FALSE, hasStoredBlockHash |-> FALSE,
      mapSize |-> 0, url |-> "",
      winners |-> <<>>, payoutAmount |-> 0, hasPaidOut |-> FALSE,
      startTime |-> 0, openTime |-> 0,
      hasWithdrawn |-> [a \in Addr |-> FALSE], canWithdraw |-> FALSE ]

\* ---------------------------------------------------------------- hashing
\* keccak256(abi.encodePacked(x)) of one bytes32: injective, never 0, no fixed point
\* on the values of the model.
Keccak1(x) == 7 + 3 * x

\* keccak256(abi.encodePacked(blockHash, _reveal)): injective on pairs, never 0.
Keccak2(b, r) == 1000 + 8 * b + r

\* The hash of block n as the chain fixes it once n is mined (never 0).
BlockHashOf(n) == 100 + n

\* Faulty variant of blockhash: the hash of every mined block is kept for ever.
blockhashKept(n, number) ==
    IF n < number THEN BlockHashOf(n) ELSE 0

\* EVM blockhash(n) executed in block "number": 0 for the current and for future
\* blocks and for blocks older than the 256 most recent ones.
blockhash(n, number) ==
    IF n < number /\ number - n <= BLOCKHASH_WINDOW THEN BlockHashOf(n) ELSE 0

\* The values passed as _hash: the hashes of the secrets.
Bytes32 == {Keccak1(s) : s \in Secrets}

\* ------------------------------------------------------------ call results
Revert(w, reason) == [err |-> reason, w |-> w]
Return(w) == [err |-> "", w |-> w]

\* require(games[gameId].gamemaster != address(0), "Game does not exist")
Exists(g) == g.gamemaster # ZeroAddr

\* payable(to).call{value: amount}(""): fails when the recipient refuses the payment
\* (to \in refusing) or the contract does not hold the amount.
CanSend(w, to, amount, refusing) == to \notin refusing /\ w.balance >= amount

Send(w, gameId, to, amount) ==
    [w EXCEPT !.balance = @ - amount, !.sent[gameId] = @ + amount,
              !.received[to] = @ + amount]

\* ------------------------------------------------------------- createGame
\* Faulty variant of createGame: the gamemaster is recorded as creator.
createGameByGamemaster(w, sender, _gamemaster, _stakeAmount) ==
    IF _gamemaster = ZeroAddr THEN Revert(w, "Gamemaster cannot be zero address")
    ELSE IF ~(_stakeAmount > 0) THEN Revert(w, "Stake amount must be greater than 0")
    ELSE LET gameId == w.nextGameId IN
         Return([w EXCEPT !.nextGameId = @ + 1,
                          !.games[gameId].gamemaster = _gamemaster,
                          !.games[gameId].creator = _gamemaster,
                          !.games[gameId].stakeAmount = _stakeAmount,
                          !.games[gameId].open = FALSE])

\* Faulty variant of createGame: nextGameId is read but not incremented.
createGameSameId(w, sender, _gamemaster, _stakeAmount) ==
    IF _gamemaster = ZeroAddr THEN Revert(w, "Gamemaster cannot be zero address")
    ELSE IF ~(_stakeAmount > 0) THEN Revert(w, "Stake amount must be greater than 0")
    ELSE LET gameId == w.nextGameId IN
         Return([w EXCEPT !.games[gameId].gamemaster = _gamemaster,
                          !.games[gameId].creator = sender,
                          !.games[gameId].stakeAmount = _stakeAmount,
                          !.games[gameId].open = FALSE])

\* Faulty variant of createGame: the new game is open from its creation.
createGameOpen(w, sender, _gamemaster, _stakeAmount) ==
    IF _gamemaster = ZeroAddr THEN Revert(w, "Gamemaster cannot be zero address")
    ELSE IF ~(_stakeAmount > 0) THEN Revert(w, "Stake amount must be greater than 0")
    ELSE LET gameId == w.nextGameId IN
         Return([w EXCEPT !.nextGameId = @ + 1,
                          !.games[gameId].gamemaster = _gamemaster,
                          !.games[gameId].creator = sender,
                          !.games[gameId].stakeAmount = _stakeAmount,
                          !.games[gameId].open = TRUE])

createGame(w, sender, _gamemaster, _stakeAmount) ==
    IF _gamemaster = ZeroAddr THEN Revert(w, "Gamemaster cannot be zero address")
    ELSE IF ~(_stakeAmount > 0) THEN Revert(w, "Stake amount must be greater than 0")
    ELSE LET gameId == w.nextGameId IN
         Return([w EXCEPT !.nextGameId = @ + 1,
                          !.games[gameId].gamemaster = _gamemaster,
                          !.games[gameId].creator = sender,
                          !.games[gameId].stakeAmount = _stakeAmount,
                          !.games[gameId].open = FALSE])

\* -------------------------------------------------------------- closeGame
\* Faulty variant of gameIsAbandoned: the game counts as abandoned only after the
\* instant openTime + CREATOR_TIMEOUT, not at it.
gameAbandonedLater(g, now) ==
    /\ g.openTime > 0
    /\ now > g.openTime + CREATOR_TIMEOUT
    /\ Len(g.players) > 0

\* Faulty variant of gameIsAbandoned: the test on the players is inverted.
gameAbandonedIfEmpty(g, now) ==
    /\ g.openTime > 0
    /\ now >= g.openTime + CREATOR_TIMEOUT
    /\ Len(g.players) = 0

\* bool abandoned = openTime > 0 && block.timestamp >= openTime + CREATOR_TIMEOUT
\*                  && players.length > 0
gameIsAbandoned(g, now) ==
    /\ g.openTime > 0
    /\ now >= g.openTime + CREATOR_TIMEOUT
    /\ Len(g.players) > 0

\* Faulty variant of calculatedMapSize: the parentheses are misplaced.
calculatedMapSizeSum(g) == (1 + Len(g.players)) * 4

\* uint256 calculatedMapSize = 1 + (games[gameId].players.length * 4)
calculatedMapSize(g) == 1 + (Len(g.players) * 4)

closeGame(w, sender, gameId, now) ==
    LET g == w.games[gameId]
        callerIsCreator == sender = g.creator
    IN  IF ~Exists(g) THEN Revert(w, "Game does not exist")
        ELSE IF ~g.hasOpened THEN Revert(w, "Game must be opened before it can be closed")
        ELSE IF g.hasClosed
             THEN Revert(w, "Game has already been closed and cannot be closed again")
        ELSE IF ~g.open THEN Revert(w, "Game is already closed")
        ELSE IF ~(callerIsCreator \/ gameIsAbandoned(g, now)) THEN Revert(w, "Not authorized")
        ELSE Return([w EXCEPT !.games[gameId].open = FALSE,
                              !.games[gameId].hasClosed = TRUE,
                              !.games[gameId].startTime = now,
                              !.games[gameId].mapSize = calculatedMapSize(g)])

\* --------------------------------------------------------------- joinGame
\* Faulty variant of joinGameRequires: the require on open is missing.
joinGameWhenClosed(g, sender, value) ==
    IF ~Exists(g) THEN "Game does not exist"
    ELSE IF value # g.stakeAmount THEN "Must stake the exact required amount to join"
    ELSE IF g.hasJoined[sender] THEN "Player has already joined the game"
    ELSE ""

\* Faulty variant of joinGameRequires: the require on hasJoined is missing.
joinGameNoMemberCheck(g, sender, value) ==
    IF ~Exists(g) THEN "Game does not exist"
    ELSE IF ~g.open THEN "Game is not open for joining"
    ELSE IF value # g.stakeAmount THEN "Must stake the exact required amount to join"
    ELSE ""

\* Faulty variant of joinGameRequires: the require on the game's existence is missing.
joinGameAnyId(g, sender, value) ==
    IF ~g.open THEN "Game is not open for joining"
    ELSE IF value # g.stakeAmount THEN "Must stake the exact required amount to join"
    ELSE IF g.hasJoined[sender] THEN "Player has already joined the game"
    ELSE ""

\* The four requires of joinGame: the reason of the first that fails, or "".
joinGameRequires(g, sender, value) ==
    IF ~Exists(g) THEN "Game does not exist"
    ELSE IF ~g.open THEN "Game is not open for joining"
    ELSE IF value # g.stakeAmount THEN "Must stake the exact required amount to join"
    ELSE IF g.hasJoined[sender] THEN "Player has already joined the game"
    ELSE ""

\* Faulty variant of joinGame: the caller is put at the head of players.
joinGameAtHead(w, sender, value, gameId) ==
    LET g == w.games[gameId] IN
    IF joinGameRequires(g, sender, value) # ""
    THEN Revert(w, joinGameRequires(g, sender, value))
    ELSE Return([w EXCEPT !.balance = @ + value,
                          !.games[gameId].players = <<sender>> \o @,
                          !.games[gameId].hasJoined[sender] = TRUE])

\* payable: msg.value is credited when the call returns and handed back when it reverts.
joinGame(w, sender, value, gameId) ==
    LET g == w.games[gameId] IN
    IF joinGameRequires(g, sender, value) # ""
    THEN Revert(w, joinGameRequires(g, sender, value))
    ELSE Return([w EXCEPT !.balance = @ + value,
                          !.games[gameId].players = Append(@, sender),
                          !.games[gameId].hasJoined[sender] = TRUE])

\* ------------------------------------------------------------- commitHash
\* Faulty variant of isGamemaster: the creator passes as well.
isGamemasterOrCreator(w, sender, gameId) ==
    IF ~Exists(w.games[gameId]) THEN "Game does not exist"
    ELSE IF sender # w.games[gameId].gamemaster /\ sender # w.games[gameId].creator
         THEN "Not authorized"
    ELSE ""

\* modifier isGamemaster: the reason it reverts with, or "".
isGamemaster(w, sender, gameId) ==
    IF ~Exists(w.games[gameId]) THEN "Game does not exist"
    ELSE IF sender # w.games[gameId].gamemaster THEN "Not authorized"
    ELSE ""

\* Faulty variant of commitHashRequires: a revealed game may be committed again.
commitHashUnlessRevealed(g) ==
    IF g.hasCommitted /\ ~g.hasRevealed
    THEN "Hash has already been committed and cannot be committed again"
    ELSE ""

\* Faulty variant of commitHashRequires: the require on hasCommitted is missing.
commitHashAgain(g) == ""

commitHashRequires(g) ==
    IF g.hasCommitted
    THEN "Hash has already been committed and cannot be committed again"
    ELSE ""

commitHash(w, sender, gameId, _hash, number, now) ==
    LET g == w.games[gameId] IN
    IF isGamemaster(w, sender, gameId) # "" THEN Revert(w, isGamemaster(w, sender, gameId))
    ELSE IF commitHashRequires(g) # "" THEN Revert(w, commitHashRequires(g))
    ELSE Return([w EXCEPT !.games[gameId].committedHash = _hash,
                          !.games[gameId].commitBlockNumber = number + 1,
                          !.games[gameId].hasCommitted = TRUE,
                          !.games[gameId].hasRevealed = FALSE,
                          !.games[gameId].open = TRUE,
                          !.games[gameId].hasOpened = TRUE,
                          !.games[gameId].openTime = now])

\* --------------------------------------------------- storeCommitBlockHash
\* Faulty variant of storeCommitBlockHashRequires: the require on hasStoredBlockHash
\* is missing.
storeCommitBlockHashAgain(g, _url, number) ==
    IF ~g.hasCommitted THEN "No hash has been committed yet"
    ELSE IF ~(number >= g.commitBlockNumber)
         THEN "Must wait for the commit block to be mined"
    ELSE IF ~(Len(_url) > 0) THEN "URL cannot be empty"
    ELSE IF blockhash(g.commitBlockNumber, number) = 0
         THEN "Commit block hash not available (too old or invalid)"
    ELSE ""

\* The requires of storeCommitBlockHash, in the order they are evaluated.
storeCommitBlockHashRequires(g, _url, number) ==
    IF ~g.hasCommitted THEN "No hash has been committed yet"
    ELSE IF g.hasStoredBlockHash THEN "Block hash has already been stored"
    ELSE IF ~(number >= g.commitBlockNumber)
         THEN "Must wait for the commit block to be mined"
    ELSE IF ~(Len(_url) > 0) THEN "URL cannot be empty"
    ELSE IF blockhash(g.commitBlockNumber, number) = 0
         THEN "Commit block hash not available (too old or invalid)"
    ELSE ""

\* Faulty variant of storeCommitBlockHash: it stores the hash of the latest block, not
\* of block commitBlockNumber.
storeLatestBlockHash(w, sender, gameId, _url, number) ==
    LET g == w.games[gameId] IN
    IF isGamemaster(w, sender, gameId) # ""
    THEN Revert(w, isGamemaster(w, sender, gameId))
    ELSE IF storeCommitBlockHashRequires(g, _url, number) # ""
    THEN Revert(w, storeCommitBlockHashRequires(g, _url, number))
    ELSE Return([w EXCEPT !.games[gameId].commitBlockHash = blockhash(number - 1, number),
                          !.games[gameId].url = _url,
                          !.games[gameId].hasStoredBlockHash = TRUE])

storeCommitBlockHash(w, sender, gameId, _url, number) ==
    LET g == w.games[gameId] IN
    IF isGamemaster(w, sender, gameId) # ""
    THEN Revert(w, isGamemaster(w, sender, gameId))
    ELSE IF storeCommitBlockHashRequires(g, _url, number) # ""
    THEN Revert(w, storeCommitBlockHashRequires(g, _url, number))
    ELSE Return([w EXCEPT !.games[gameId].commitBlockHash =
                              blockhash(g.commitBlockNumber, number),
                          !.games[gameId].url = _url,
                          !.games[gameId].hasStoredBlockHash = TRUE])

\* ------------------------------------------------------------- revealHash
\* Faulty variant of revealHashRequires: the stored block hash is not required.
revealHashWithoutBlockHash(g, _reveal, number) ==
    IF ~g.hasCommitted THEN "No hash has been committed"
    ELSE IF g.hasRevealed THEN "Hash has already been revealed"
    ELSE IF ~(number >= g.commitBlockNumber)
         THEN "Cannot reveal before the commit block number"
    ELSE IF Keccak1(_reveal) # g.committedHash
         THEN "Reveal does not match the committed hash"
    ELSE ""

\* Faulty variant of revealHashRequires: the reveal is not compared with the
\* committed hash.
revealHashAnySecret(g, _reveal, number) ==
    IF ~g.hasCommitted THEN "No hash has been committed"
    ELSE IF g.hasRevealed THEN "Hash has already been revealed"
    ELSE IF ~(number >= g.commitBlockNumber)
         THEN "Cannot reveal before the commit block number"
    ELSE IF g.commitBlockHash = 0
         THEN "Block hash not available for randomHash calculation"
    ELSE ""

\* Faulty variant of revealHashRequires: the require on hasRevealed is missing.
revealHashAgain(g, _reveal, number) ==
    IF ~g.hasCommitted THEN "No hash has been committed"
    ELSE IF ~(number >= g.commitBlockNumber)
         THEN "Cannot reveal before the commit block number"
    ELSE IF Keccak1(_reveal) # g.committedHash
         THEN "Reveal does not match the committed hash"
    ELSE IF g.commitBlockHash = 0
         THEN "Block hash not available for randomHash calculation"
    ELSE ""

\* The requires of revealHash, in the order they are evaluated.
revealHashRequires(g, _reveal, number) ==
    IF ~g.hasCommitted THEN "No hash has been committed"
    ELSE IF g.hasRevealed THEN "Hash has already been revealed"
    ELSE IF ~(number >= g.commitBlockNumber)
         THEN "Cannot reveal before the commit block number"
    ELSE IF Keccak1(_reveal) # g.committedHash
         THEN "Reveal does not match the committed hash"
    ELSE IF g.commitBlockHash = 0
         THEN "Block hash not available for randomHash calculation"
    ELSE ""

\* Faulty variant of randomHashOf: the committed hash is taken for the block hash.
randomHashOfCommitment(g, _reveal) == Keccak2(g.committedHash, _reveal)

\* games[gameId].randomHash = keccak256(abi.encodePacked(blockHash, _reveal))
randomHashOf(g, _reveal) == Keccak2(g.commitBlockHash, _reveal)

revealHash(w, sender, gameId, _reveal, number) ==
    LET g == w.games[gameId] IN
    IF isGamemaster(w, sender, gameId) # "" THEN Revert(w, isGamemaster(w, sender, gameId))
    ELSE IF revealHashRequires(g, _reveal, number) # ""
         THEN Revert(w, revealHashRequires(g, _reveal, number))
    ELSE Return([w EXCEPT !.games[gameId].revealValue = _reveal,
                          !.games[gameId].hasRevealed = TRUE,
                          !.games[gameId].randomHash = randomHashOf(g, _reveal)])

\* ----------------------------------------------------------------- payout
\* Faulty variant of gamemasterCut: a tenth instead of a hundredth.
gamemasterCutTenth(gamePrizePool) == gamePrizePool \div 10

\* uint256 gamemasterCut = gamePrizePool / 100
gamemasterCut(gamePrizePool) == gamePrizePool \div 100

\* Faulty variant of winnersPool: the gamemaster's cut is not deducted.
winnersPoolWithCut(gamePrizePool) == gamePrizePool

\* uint256 winnersPool = gamePrizePool - gamemasterCut
winnersPool(gamePrizePool) == gamePrizePool - gamemasterCut(gamePrizePool)

\* Faulty variant of amountPerWinner: the winners' pool is not divided.
amountPerWinnerWhole(gamePrizePool, n) == winnersPool(gamePrizePool)

\* uint256 amountPerWinner = winnersPool / _winners.length
amountPerWinner(gamePrizePool, n) == winnersPool(gamePrizePool) \div n

\* Faulty variant of PayWinners: a transfer that fails is skipped, the loop goes on.
RECURSIVE PayWinnersSkipping(_, _, _, _, _, _)
PayWinnersSkipping(w, gameId, _winners, i, amount, refusing) ==
    IF i > Len(_winners) THEN Return(w)
    ELSE IF ~CanSend(w, _winners[i], amount, refusing)
         THEN PayWinnersSkipping(w, gameId, _winners, i + 1, amount, refusing)
    ELSE PayWinnersSkipping(Send(w, gameId, _winners[i], amount),
                            gameId, _winners, i + 1, amount, refusing)

\* The loop "Send payout to each winner" from index i on.
RECURSIVE PayWinners(_, _, _, _, _, _)
PayWinners(w, gameId, _winners, i, amount, refusing) ==
    IF i > Len(_winners) THEN Return(w)
    ELSE IF ~CanSend(w, _winners[i], amount, refusing)
         THEN Revert(w, "Failed to send payout to winner")
    ELSE PayWinners(Send(w, gameId, _winners[i], amount),
                    gameId, _winners, i + 1, amount, refusing)

\* Faulty variant of payoutRequires: a per-winner amount of zero is let through.
payoutRequiresAnyAmount(g, _winners) ==
    IF ~(Len(_winners) > 0) THEN "Must provide at least one winner address"
    ELSE IF ~(Len(g.players) > 0) THEN "No players in the game"
    ELSE IF g.hasPaidOut THEN "Game has already been paid out"
    ELSE IF g.canWithdraw THEN "Players have already started withdrawing"
    ELSE IF ~(g.stakeAmount * Len(g.players) > 0) THEN "No prize pool available for this game"
    ELSE IF \E i \in 1..Len(_winners) : _winners[i] = ZeroAddr
         THEN "Winner address cannot be zero address"
    ELSE ""

\* The requires of payout after the modifier, in the order they are evaluated: the
\* reason of the first that fails, or "".
payoutRequires(g, _winners) ==
    IF ~(Len(_winners) > 0) THEN "Must provide at least one winner address"
    ELSE IF ~(Len(g.players) > 0) THEN "No players in the game"
    ELSE IF g.hasPaidOut THEN "Game has already been paid out"
    ELSE IF g.canWithdraw THEN "Players have already started withdrawing"
    ELSE IF ~(g.stakeAmount * Len(g.players) > 0) THEN "No prize pool available for this game"
    ELSE IF ~(amountPerWinner(g.stakeAmount * Len(g.players), Len(_winners)) > 0)
         THEN "Payout amount per winner must be greater than 0"
    ELSE IF \E i \in 1..Len(_winners) : _winners[i] = ZeroAddr
         THEN "Winner address cannot be zero address"
    ELSE ""

\* "Store winners and payout info in contract state": the writes of payout, all
\* made before its transfers.
storeWinners(w, gameId, _winners) ==
    LET g == w.games[gameId] IN
    [w EXCEPT !.games[gameId].winners = @ \o _winners,
              !.games[gameId].payoutAmount =
                  amountPerWinner(g.stakeAmount * Len(g.players), Len(_winners)),
              !.games[gameId].hasPaidOut = TRUE]

\* The recipients of the transfers of payout, in order, each with the storage and
\* balance it finds when the transfer hands control to it: the writes are made, the
\* earlier transfers and its own have left the contract.
DuringPayout(w, gameId, _winners) ==
    LET g == w.games[gameId]
        gamePrizePool == g.stakeAmount * Len(g.players)
        cut == gamemasterCut(gamePrizePool)
        perWinner == amountPerWinner(gamePrizePool, Len(_winners))
        stored == storeWinners(w, gameId, _winners)
        cutSent == IF cut > 0 THEN Send(stored, gameId, g.gamemaster, cut) ELSE stored
    IN  (IF cut > 0 THEN {[to |-> g.gamemaster, w |-> cutSent]} ELSE {})
        \cup {[to |-> _winners[i],
               w |-> PayWinners(cutSent, gameId, SubSeq(_winners, 1, i), 1, perWinner, {}).w] :
                  i \in 1..Len(_winners)}

\* Faulty variant of payout: when a transfer to a winner fails, what was written and
\* sent before it stays.
payoutPartial(w, sender, gameId, _winners, refusing) ==
    LET g == w.games[gameId]
        gamePrizePool == g.stakeAmount * Len(g.players)
        cut == gamemasterCut(gamePrizePool)
        perWinner == amountPerWinner(gamePrizePool, Len(_winners))
        stored == storeWinners(w, gameId, _winners)
        cutSent == IF cut > 0 THEN Send(stored, gameId, g.gamemaster, cut) ELSE stored
        paid == PayWinners(cutSent, gameId, _winners, 1, perWinner, refusing)
    IN  IF isGamemaster(w, sender, gameId) # ""
        THEN Revert(w, isGamemaster(w, sender, gameId))
        ELSE IF payoutRequires(g, _winners) # "" THEN Revert(w, payoutRequires(g, _winners))
        ELSE IF cut > 0 /\ ~CanSend(stored, g.gamemaster, cut, refusing)
             THEN Revert(w, "Failed to send payout to gamemaster")
        ELSE paid

payout(w, sender, gameId, _winners, refusing) ==
    LET g == w.games[gameId]
        gamePrizePool == g.stakeAmount * Len(g.players)
        cut == gamemasterCut(gamePrizePool)
        perWinner == amountPerWinner(gamePrizePool, Len(_winners))
        stored == storeWinners(w, gameId, _winners)
        cutSent == IF cut > 0 THEN Send(stored, gameId, g.gamemaster, cut) ELSE stored
        paid == PayWinners(cutSent, gameId, _winners, 1, perWinner, refusing)
    IN  IF isGamemaster(w, sender, gameId) # ""
        THEN Revert(w, isGamemaster(w, sender, gameId))
        ELSE IF payoutRequires(g, _winners) # "" THEN Revert(w, payoutRequires(g, _winners))
        ELSE IF cut > 0 /\ ~CanSend(stored, g.gamemaster, cut, refusing)
             THEN Revert(w, "Failed to send payout to gamemaster")
        ELSE IF paid.err # "" THEN Revert(w, paid.err)
        ELSE Return(paid.w)

\* --------------------------------------------------------- playerWithdraw
\* Faulty variant of withdrawalAvailable: timeoutReached is not looked at.
withdrawalAtOnce(g, now) ==
    g.canWithdraw \/ ~g.hasPaidOut

\* Faulty variant of withdrawalAvailable: hasPaidOut is not looked at.
withdrawalAfterPayout(g, now) ==
    g.canWithdraw \/ now >= g.startTime + PAYOUT_TIMEOUT

\* Faulty variant of withdrawalAvailable: the timeout is reached only after the
\* instant startTime + PAYOUT_TIMEOUT, not at it.
withdrawalPastDeadline(g, now) ==
    LET timeoutReached == now > g.startTime + PAYOUT_TIMEOUT
    IN  g.canWithdraw \/ (timeoutReached /\ ~g.hasPaidOut)

\* games[gameId].canWithdraw || (timeoutReached && !games[gameId].hasPaidOut)
withdrawalAvailable(g, now) ==
    LET timeoutReached == now >= g.startTime + PAYOUT_TIMEOUT
    IN  g.canWithdraw \/ (timeoutReached /\ ~g.hasPaidOut)

\* Faulty variant of startWithdrawals: hasPaidOut is not set.
startWithdrawalsOnly(g) ==
    IF ~g.canWithdraw THEN [g EXCEPT !.canWithdraw = TRUE] ELSE g

\* "If this is the first withdrawal, set the flags"
startWithdrawals(g) ==
    IF ~g.canWithdraw THEN [g EXCEPT !.canWithdraw = TRUE, !.hasPaidOut = TRUE] ELSE g

\* Faulty variant of withdrawalAmount: the whole pool instead of the player's stake.
withdrawalAmountPool(g) == g.stakeAmount * Len(g.players)

\* uint256 withdrawalAmount = games[gameId].stakeAmount
withdrawalAmount(g) == g.stakeAmount

\* Faulty variant of markWithdrawn: the caller is not marked before the transfer.
markWithdrawalStarted(w, sender, gameId) ==
    [w EXCEPT !.games[gameId] = startWithdrawals(w.games[gameId])]

\* Faulty variant of markWithdrawn: hasWithdrawn is kept per player, for all games at
\* once.
markWithdrawnEverywhere(w, sender, gameId) ==
    [w EXCEPT !.games = [id \in GameIds |->
         IF id = gameId
         THEN [startWithdrawals(w.games[id]) EXCEPT !.hasWithdrawn[sender] = TRUE]
         ELSE [w.games[id] EXCEPT !.hasWithdrawn[sender] = TRUE]]]

\* The writes of playerWithdraw, all made before its transfer: the flags of the
\* first withdrawal and "Mark player as withdrawn".
markWithdrawn(w, sender, gameId) ==
    [w EXCEPT !.games[gameId] =
         [startWithdrawals(w.games[gameId]) EXCEPT !.hasWithdrawn[sender] = TRUE]]

\* The storage and balance a recipient finds when the transfer of playerWithdraw
\* hands control to it: the value has left the contract.
DuringWithdraw(w, sender, gameId) ==
    {[to |-> sender,
      w |-> Send(markWithdrawn(w, sender, gameId), gameId, sender,
                 withdrawalAmount(w.games[gameId]))]}

playerWithdraw(w, sender, gameId, now, refusing) ==
    LET g == w.games[gameId]
        marked == markWithdrawn(w, sender, gameId)
    IN  IF ~Exists(g) THEN Revert(w, "Game does not exist")
        ELSE IF ~g.hasClosed THEN Revert(w, "Game must be closed before withdrawal")
        ELSE IF ~g.hasJoined[sender] THEN Revert(w, "Player did not join this game")
        ELSE IF g.hasWithdrawn[sender]
             THEN Revert(w, "Player has already withdrawn from this game")
        ELSE IF ~(g.startTime > 0) THEN Revert(w, "Game has no start time set")
        ELSE IF ~withdrawalAvailable(g, now) THEN Revert(w, "Withdrawal not available")
        ELSE IF ~CanSend(marked, sender, withdrawalAmount(g), refusing)
             THEN Revert(w, "Failed to send withdrawal to player")
        ELSE Return(Send(marked, gameId, sender, withdrawalAmount(g)))

\* ------------------------------------------------------------------ views
\* A view function: its require on the game, then the value it returns.
View(w, gameId, val) ==
    IF ~Exists(w.games[gameId]) THEN [err |-> "Game does not exist", val |-> <<>>]
    ELSE [err |-> "", val |-> val]

getPlayers(w, gameId) == View(w, gameId, w.games[gameId].players)

getPlayerCount(w, gameId) == View(w, gameId, Len(w.games[gameId].players))

getCommitBlockHash(w, gameId) ==
    LET g == w.games[gameId] IN
    IF ~Exists(g) THEN [err |-> "Game does not exist", val |-> <<>>]
    ELSE IF ~g.hasCommitted
         THEN [err |-> "No hash has been committed for this game", val |-> <<>>]
    ELSE IF ~g.hasClosed
         THEN [err |-> "Game must be closed before accessing commit block hash", val |-> <<>>]
    ELSE IF g.commitBlockHash = 0
         THEN [err |-> "Commit block hash not available (too old or not stored)", val |-> <<>>]
    ELSE [err |-> "", val |-> g.commitBlockHash]

getCommitRevealState(w, gameId) ==
    LET g == w.games[gameId] IN
    View(w, gameId, <<g.committedHash, g.commitBlockNumber, g.revealValue, g.randomHash,
                      g.hasCommitted, g.hasRevealed, g.hasStoredBlockHash, g.mapSize>>)

getGameBalance(w, gameId) ==
    View(w, gameId, w.games[gameId].stakeAmount * Len(w.games[gameId].players))

getGameInfo(w, gameId) ==
    LET g == w.games[gameId] IN
    View(w, gameId, <<g.gamemaster, g.creator, g.stakeAmount, g.open, Len(g.players),
                      g.hasOpened, g.hasClosed>>)

\* Faulty variant of isAbandoned: the game need not be open any more.
isAbandonedOnceOpened(g, now) ==
    /\ g.openTime > 0
    /\ now >= g.openTime + CREATOR_TIMEOUT
    /\ Len(g.players) > 0

\* bool isAbandoned of isGameAbandoned and bool abandoned of getFullGameState
isAbandoned(g, now) ==
    /\ g.openTime > 0
    /\ now >= g.openTime + CREATOR_TIMEOUT
    /\ Len(g.players) > 0
    /\ g.open

\* uint256 timeUntil of isGameAbandoned
timeUntilAbandonmentTimeout(g, now) ==
    IF g.openTime > 0 /\ now < g.openTime + CREATOR_TIMEOUT
    THEN g.openTime + CREATOR_TIMEOUT - now
    ELSE 0

isGameAbandoned(w, gameId, now) ==
    LET g == w.games[gameId] IN
    View(w, gameId, [abandoned |-> isAbandoned(g, now),
                     timeUntilAbandonmentTimeout |-> timeUntilAbandonmentTimeout(g, now)])

hasPlayerJoined(w, gameId, player) == View(w, gameId, w.games[gameId].hasJoined[player])

getMapSize(w, gameId) == View(w, gameId, w.games[gameId].mapSize)

getGameUrl(w, gameId) == View(w, gameId, w.games[gameId].url)

getPayoutInfo(w, gameId) ==
    LET g == w.games[gameId] IN View(w, gameId, <<g.winners, g.payoutAmount, g.hasPaidOut>>)

hasPlayerWithdrawn(w, gameId, player) ==
    View(w, gameId, w.games[gameId].hasWithdrawn[player])

\* Faulty variant of withdrawAvailableNow: hasClosed and startTime are not looked at.
withdrawAvailableUnclosed(g, now) ==
    g.canWithdraw \/ (now >= g.startTime + PAYOUT_TIMEOUT /\ ~g.hasPaidOut)

\* bool withdrawAvailableNow of getWithdrawalInfo and bool withdrawNow of
\* getFullGameState
withdrawAvailableNow(g, now) ==
    LET withdrawalTime == g.startTime + PAYOUT_TIMEOUT
    IN  g.canWithdraw
            \/ (g.hasClosed /\ g.startTime > 0 /\ now >= withdrawalTime /\ ~g.hasPaidOut)

\* uint256 timeUntil of getWithdrawalInfo
timeUntilWithdrawal(g, now) ==
    LET withdrawalTime == g.startTime + PAYOUT_TIMEOUT
    IN  IF g.startTime > 0 /\ now < withdrawalTime THEN withdrawalTime - now ELSE 0

getWithdrawalInfo(w, gameId, now) ==
    LET g == w.games[gameId] IN
    View(w, gameId, [startTime |-> g.startTime,
                     canWithdraw |-> g.canWithdraw,
                     canWithdrawNow |-> withdrawAvailableNow(g, now),
                     timeUntilWithdrawal |-> timeUntilWithdrawal(g, now)])

\* Every field of the game, the two computed views, and the flags of playerAddress
\* (false for address(0)).
getFullGameState(w, gameId, playerAddress, now) ==
    LET g == w.games[gameId] IN
    View(w, gameId, [game |-> [g EXCEPT !.hasJoined = <<>>, !.hasWithdrawn = <<>>],
                     gameAbandoned |-> isAbandoned(g, now),
                     timeUntilAbandonmentTimeout |-> timeUntilAbandonmentTimeout(g, now),
                     canWithdrawNow |-> withdrawAvailableNow(g, now),
                     timeUntilWithdrawal |-> timeUntilWithdrawal(g, now),
                     playerWithdrawn |-> IF playerAddress # ZeroAddr
                                         THEN g.hasWithdrawn[playerAddress] ELSE FALSE,
                     playerJoined |-> IF playerAddress # ZeroAddr
                                      THEN g.hasJoined[playerAddress] ELSE FALSE])

\* What every view of game gameId reverts with ("" when it returns), at time now and
\* for every player asked about.
ViewErrors(w, gameId, now) ==
    {getPlayers(w, gameId).err, getPlayerCount(w, gameId).err,
     getCommitBlockHash(w, gameId).err, getCommitRevealState(w, gameId).err,
     getGameBalance(w, gameId).err, getGameInfo(w, gameId).err,
     isGameAbandoned(w, gameId, now).err, getMapSize(w, gameId).err,
     getGameUrl(w, gameId).err, getPayoutInfo(w, gameId).err,
     getWithdrawalInfo(w, gameId, now).err}
    \cup {hasPlayerJoined(w, gameId, player).err : player \in Addr}
    \cup {hasPlayerWithdrawn(w, gameId, player).err : player \in Addr}
    \cup {getFullGameState(w, gameId, playerAddress, now).err :
              playerAddress \in {ZeroAddr} \cup Addr}

\* ---------------------------------------------------------- state machine
\* The arrays a caller can pass as _winners: entries may repeat, name accounts that
\* never joined, or be address(0).
RECURSIVE SeqsUpTo(_, _)
SeqsUpTo(S, n) ==
    IF n = 0 THEN {<<>>}
    ELSE LET shorter == SeqsUpTo(S, n - 1)
         IN  shorter \cup {Append(q, x) : q \in {r \in shorter : Len(r) = n - 1}, x \in S}

WinnerLists == SeqsUpTo({ZeroAddr} \cup Addr, MaxWinners)

\* The recipients that refuse a payment during one call: none, or one account.
Refusals == {{}} \cup {{a} : a \in Addr}

\* The calls counted in "calls".
Ops == {"createGame", "closeGame", "joinGame", "commitHash", "storeCommitBlockHash",
        "revealHash", "payout", "playerWithdraw"}

\* State after construction: nextGameId = 1, every mapping entry at its default.
Init ==
    /\ nextGameId = 1
    /\ games = [id \in GameIds |-> EmptyGame]
    /\ balance = 0
    /\ blockNumber = 1
    /\ blockTimestamp = 1
    /\ sent = [id \in GameIds |-> 0]
    /\ received = [a \in Addr |-> 0]
    /\ calls = [id \in GameIds |-> [op \in Ops |-> 0]]

\* One transaction that returns: the storage becomes the result's and the call is
\* counted; the chain's clock stands.  A transaction that reverts (r.err # "") leaves
\* the storage as it was: it is a stuttering step, which [Next]_vars allows.
Call(op, gameId, r) ==
    /\ r.err = ""
    /\ nextGameId' = r.w.nextGameId
    /\ games' = r.w.games
    /\ balance' = r.w.balance
    /\ sent' = r.w.sent
    /\ received' = r.w.received
    /\ calls' = [calls EXCEPT ![gameId][op] = @ + 1]
    /\ UNCHANGED <<blockNumber, blockTimestamp>>

\* createGame is called by account 1 and names account 1, account 2 or address(0) as
\* gamemaster (the environment says which, and which stakes): the contract treats no
\* account but address(0) specially, so every other choice of creator and gamemaster
\* is one of these with the accounts renamed.
CreateGameOf(maxGames, gamemasters, stakes) ==
    \E sender \in {1}, _gamemaster \in gamemasters, _stakeAmount \in stakes :
        /\ nextGameId <= maxGames
        /\ Call("createGame", nextGameId, createGame(World, sender, _gamemaster, _stakeAmount))

\* In every function the first check (the game exists; for the gamemaster functions,
\* the modifier isGamemaster) is made before the other arguments are drawn: a call it
\* rejects reverts whatever they are.
CloseGame ==
    \E sender \in Addr, gameId \in GameIds :
        /\ Exists(games[gameId])
        /\ Call("closeGame", gameId, closeGame(World, sender, gameId, blockTimestamp))

JoinGame ==
    \E sender \in Addr, gameId \in GameIds :
        /\ Exists(games[gameId])
        /\ \E value \in Stakes :
               Call("joinGame", gameId, joinGame(World, sender, value, gameId))

CommitHashOf(hashes) ==
    \E sender \in Addr, gameId \in GameIds :
        /\ isGamemaster(World, sender, gameId) = ""
        /\ \E _hash \in hashes :
               Call("commitHash", gameId,
                    commitHash(World, sender, gameId, _hash, blockNumber, blockTimestamp))

StoreCommitBlockHash ==
    \E sender \in Addr, gameId \in GameIds :
        /\ isGamemaster(World, sender, gameId) = ""
        /\ \E _url \in Urls :
               Call("storeCommitBlockHash", gameId,
                    storeCommitBlockHash(World, sender, gameId, _url, blockNumber))

RevealHash ==
    \E sender \in Addr, gameId \in GameIds :
        /\ isGamemaster(World, sender, gameId) = ""
        /\ \E _reveal \in Secrets :
               Call("revealHash", gameId,
                    revealHash(World, sender, gameId, _reveal, blockNumber))

PayoutOf(winnerLists, refusals) ==
    \E sender \in Addr, gameId \in GameIds :
        /\ isGamemaster(World, sender, gameId) = ""
        /\ \E _winners \in winnerLists, refusing \in refusals :
               Call("payout", gameId, payout(World, sender, gameId, _winners, refusing))

PlayerWithdrawOf(refusals) ==
    \E sender \in Addr, gameId \in GameIds :
        /\ Exists(games[gameId])
        /\ \E refusing \in refusals :
               Call("playerWithdraw", gameId,
                    playerWithdraw(World, sender, gameId, blockTimestamp, refusing))

\* A new block: the next number, with a timestamp dt later than its parent's.  No
\* block is mined past maxBlock or past MaxTime.
NewBlockOf(steps, maxBlock) ==
    \E dt \in steps :
        /\ blockNumber + 1 <= maxBlock
        /\ blockTimestamp + dt <= MaxTime
        /\ blockNumber' = blockNumber + 1
        /\ blockTimestamp' = blockTimestamp + dt
        /\ UNCHANGED <<nextGameId, games, balance, sent, received, calls>>

\* ---- Spec: one game, every function, every argument.
CreateGame == CreateGameOf(SoloGames, 0..2, Stakes)
CommitHash == CommitHashOf(Bytes32)
Payout == PayoutOf(WinnerLists, Refusals)
PlayerWithdraw == PlayerWithdrawOf(Refusals)
NewBlock == NewBlockOf({0, CREATOR_TIMEOUT, PAYOUT_TIMEOUT}, MaxBlock)

Next ==
    \/ CreateGame
    \/ CloseGame
    \/ JoinGame
    \/ CommitHash
    \/ StoreCommitBlockHash
    \/ RevealHash
    \/ Payout
    \/ PlayerWithdraw
    \/ NewBlock

Spec == Init /\ [][Next]_vars

\* ---- SpecFunds: MaxGames games side by side and the functions that move or gate
\* funds.  storeCommitBlockHash and revealHash are left out: they write
\* commitBlockHash, url, revealValue, randomHash, hasRevealed and hasStoredBlockHash,
\* which no other function reads.  Every game has gamemaster 2 and the same committed
\* hash, winners are the first accounts, every recipient accepts its payment, and the
\* clock moves by PAYOUT_TIMEOUT.
FirstAccounts == {[i \in 1..k |-> i] : k \in 1..MaxWinners}

FundsCreateGame == CreateGameOf(MaxGames, {2}, Stakes)
FundsCommitHash == CommitHashOf({Keccak1(0)})
FundsPayout == PayoutOf(FirstAccounts, {{}})
FundsPlayerWithdraw == PlayerWithdrawOf({{}})
FundsNewBlock == NewBlockOf({PAYOUT_TIMEOUT}, FundBlocks)

NextFunds ==
    \/ FundsCreateGame
    \/ CloseGame
    \/ JoinGame
    \/ FundsCommitHash
    \/ FundsPayout
    \/ FundsPlayerWithdraw
    \/ FundsNewBlock

SpecFunds == Init /\ [][NextFunds]_vars

\* ---- SpecLive: SpecFunds with time that goes on.  Account 1 creates every game,
\* with stake LargeStake, and is its gamemaster, so account 2 holds no privilege.  A
\* block is mined, PAYOUT_TIMEOUT after its parent, for as long as a game with players
\* waits for its abandonment or payout deadline: between deadlines a block changes no
\* function's result.  Blocks keep coming, an account that is neither creator nor gamemaster
\* keeps trying to close each game, and each player keeps trying to withdraw and
\* accepts the transfer; the creator and the gamemaster are promised nothing.
DeadlinePending ==
    \E id \in GameIds :
        LET g == games[id] IN
        /\ Len(g.players) > 0
        /\ \/ g.open /\ blockTimestamp < g.openTime + CREATOR_TIMEOUT
           \/ g.hasClosed /\ ~g.hasPaidOut /\ blockTimestamp < g.startTime + PAYOUT_TIMEOUT

LiveCreateGame == CreateGameOf(MaxGames, {1}, {LargeStake})
LiveCommitHash == CommitHashOf({Keccak1(0)})
LivePayout == PayoutOf(FirstAccounts, {{}})
LivePlayerWithdraw == PlayerWithdrawOf({{}})

LiveNewBlock ==
    \E dt \in {PAYOUT_TIMEOUT} :
        /\ DeadlinePending
        /\ blockNumber' = blockNumber + 1
        /\ blockTimestamp' = blockTimestamp + dt
        /\ UNCHANGED <<nextGameId, games, balance, sent, received, calls>>

NextLive ==
    \/ LiveCreateGame
    \/ CloseGame
    \/ JoinGame
    \/ LiveCommitHash
    \/ LivePayout
    \/ LivePlayerWithdraw
    \/ LiveNewBlock

CloseByOutsider(gameId) ==
    \E sender \in Addr \ {games[gameId].creator, games[gameId].gamemaster} :
        Call("closeGame", gameId, closeGame(World, sender, gameId, blockTimestamp))

WithdrawBy(sender, gameId) ==
    Call("playerWithdraw", gameId, playerWithdraw(World, sender, gameId, blockTimestamp, {}))

SpecLive ==
    /\ Init /\ [][NextLive]_vars
    /\ WF_vars(LiveNewBlock)
    /\ \A gameId \in 1..MaxGames :
           /\ WF_vars(CloseByOutsider(gameId))
           /\ \A sender \in Addr : WF_vars(WithdrawBy(sender, gameId))

\* ---- SpecEntropy: one game and the commit-reveal functions on a chain where many
\* blocks pass between two calls.  Account 1 is the gamemaster, the stake is 1, and
\* the clock stands still (no function of this specification but closeGame reads
\* it).  Calls are made in the first MaxBlock blocks and, BLOCKHASH_WINDOW blocks
\* later, in the blocks up to LapseBlock.
EntropyCreateGame == CreateGameOf(SoloGames, {1}, {1})

MineBlocks ==
    \E n \in {1, BLOCKHASH_WINDOW} :
        /\ n = 1 => blockNumber < MaxBlock \/ blockNumber >= BLOCKHASH_WINDOW
        /\ n = BLOCKHASH_WINDOW => blockNumber <= MaxBlock
        /\ blockNumber + n <= LapseBlock
        /\ blockNumber' = blockNumber + n
        /\ UNCHANGED <<nextGameId, games, balance, blockTimestamp, sent, received, calls>>

NextEntropy ==
    \/ EntropyCreateGame
    \/ CloseGame
    \/ JoinGame
    \/ CommitHash
    \/ StoreCommitBlockHash
    \/ RevealHash
    \/ MineBlocks

SpecEntropy == Init /\ [][NextEntropy]_vars

\* ---- SpecPair: MaxGames games side by side and every function.  Account 1 creates
\* every game with stake 1, account 2 is its gamemaster; every game has the same
\* committed hash, url and secret; winners are the first accounts and every recipient
\* accepts its payment.  Blocks follow each other at once, but for block MaxBlock,
\* which comes PAYOUT_TIMEOUT later.
PairCreateGame == CreateGameOf(MaxGames, {2}, {1})

PairStoreCommitBlockHash ==
    \E gameId \in GameIds :
        /\ Exists(games[gameId])
        /\ Call("storeCommitBlockHash", gameId,
                storeCommitBlockHash(World, games[gameId].gamemaster, gameId,
                                     "http://game", blockNumber))

PairRevealHash ==
    \E gameId \in GameIds :
        /\ Exists(games[gameId])
        /\ Call("revealHash", gameId,
                revealHash(World, games[gameId].gamemaster, gameId, 0, blockNumber))

PairNewBlock ==
    /\ blockNumber + 1 <= MaxBlock
    /\ blockNumber' = blockNumber + 1
    /\ blockTimestamp' =
           blockTimestamp + (IF blockNumber + 1 = MaxBlock THEN PAYOUT_TIMEOUT ELSE 0)
    /\ UNCHANGED <<nextGameId, games, balance, sent, received, calls>>

NextPair ==
    \/ PairCreateGame
    \/ CloseGame
    \/ JoinGame
    \/ FundsCommitHash
    \/ PairStoreCommitBlockHash
    \/ PairRevealHash
    \/ FundsPayout
    \/ FundsPlayerWithdraw
    \/ PairNewBlock

SpecPair == Init /\ [][NextPair]_vars

\* ------------------------------------------------------------- properties
\* The clock values a later call can see, and the recipients that can refuse.
AnyTime == {blockTimestamp + d : d \in {0, CREATOR_TIMEOUT, PAYOUT_TIMEOUT, MaxTime}}
AnyRefusals == SUBSET Addr

PayoutRejected(id) ==
    \A sender \in Addr, _winners \in WinnerLists, refusing \in AnyRefusals :
        payout(World, sender, id, _winners, refusing).err # ""

WithdrawRejected(id) ==
    \A sender \in Addr, now \in AnyTime, refusing \in AnyRefusals :
        playerWithdraw(World, sender, id, now, refusing).err # ""

\* C1: settlement exclusivity.  Once a payout call has returned for a game, every
\* payout call and every playerWithdraw call on it reverts, whoever calls, whatever
\* the arguments and however late; once a playerWithdraw call has returned, every
\* payout call reverts; and no game has both a returned payout and a returned
\* playerWithdraw in its history.
C1_SettlementExclusive ==
    \A id \in GameIds :
        /\ calls[id]["payout"] > 0 => PayoutRejected(id) /\ WithdrawRejected(id)
        /\ calls[id]["playerWithdraw"] > 0 => PayoutRejected(id)
        /\ ~(calls[id]["payout"] > 0 /\ calls[id]["playerWithdraw"] > 0)

\* A paid-out game that is closed, past its payout timeout, with a joined player who
\* has not withdrawn and a contract balance that covers the stake: only the payout
\* stands between that player and a withdrawal.
C1_Witness ==
    \E id \in GameIds, p \in Addr :
        /\ calls[id]["payout"] > 0
        /\ games[id].hasClosed
        /\ blockTimestamp >= games[id].startTime + PAYOUT_TIMEOUT
        /\ games[id].hasJoined[p] /\ ~games[id].hasWithdrawn[p]
        /\ balance >= games[id].stakeAmount

\* C2 as claimed: hasPaidOut and canWithdraw are never both true for a game.
C2_FlagsExclusive ==
    \A id \in GameIds : ~(games[id].hasPaidOut /\ games[id].canWithdraw)

\* C2 as the contract has it: canWithdraw implies hasPaidOut (the first withdrawal
\* sets both, hasPaidOut being the flag that blocks payout); what excludes each other
\* is canWithdraw and a payout that was made: a game with canWithdraw has no winners,
\* no payoutAmount and no returned payout call, and a game with a returned payout call
\* has hasPaidOut without canWithdraw.
C2_PathsExclusive ==
    \A id \in GameIds :
        /\ games[id].canWithdraw =>
               /\ games[id].hasPaidOut
               /\ games[id].winners = <<>> /\ games[id].payoutAmount = 0
               /\ calls[id]["payout"] = 0
        /\ calls[id]["payout"] > 0 => games[id].hasPaidOut /\ ~games[id].canWithdraw

\* A game in withdrawal mode.
C2_Witness ==
    \E id \in GameIds : games[id].canWithdraw /\ calls[id]["playerWithdraw"] > 0

\* C3: no value is created.  What the contract has transferred out for a game (the
\* gamemaster's cut, the winners' payments, the players' withdrawals) never exceeds
\* what was escrowed for it, stakeAmount * |players|.
C3_NoValueCreated ==
    \A id \in GameIds : sent[id] <= games[id].stakeAmount * Len(games[id].players)

\* A game paid out with a cut while the contract still holds another game's escrow.
C3_Witness ==
    \E id, other \in GameIds :
        /\ id # other
        /\ calls[id]["payout"] > 0
        /\ sent[id] > Len(games[id].winners) * games[id].payoutAmount
        /\ Len(games[other].players) > 0 /\ sent[other] = 0
        /\ balance >= games[other].stakeAmount

\* C4: conservation at settlement.  After a payout, what the game escrowed minus what
\* was transferred out for it is the division remainder only, less than the number of
\* winners; and when every joined player has withdrawn, what was transferred out is
\* exactly what was escrowed.
C4_SettledInFull ==
    \A id \in GameIds :
        LET g == games[id]
            escrowed == g.stakeAmount * Len(g.players)
        IN  /\ calls[id]["payout"] > 0 => escrowed - sent[id] < Len(g.winners)
            /\ (Len(g.players) > 0 /\ \A p \in Addr : g.hasJoined[p] => g.hasWithdrawn[p])
                   => escrowed = sent[id]

\* C5: withdrawal fallback.  Every player who has joined a game comes to withdraw
\* the stake unless a payout is executed on the game, with nothing done by the
\* creator or the gamemaster: time passes, an account without privilege closes the
\* abandoned game, and after PAYOUT_TIMEOUT the player's playerWithdraw returns, the
\* contract holding the funds for it whatever happened in the other games.
C5_WithdrawalFallback ==
    \A id \in 1..MaxGames, player \in Addr :
        games[id].hasJoined[player] ~>
            (games[id].hasWithdrawn[player] \/ calls[id]["payout"] > 0)

\* The unprivileged account has withdrawn its stake from a game that was closed on
\* abandonment and never paid out, while the other game was paid out.
C5_Witness ==
    \E id, other \in 1..MaxGames :
        /\ games[id].hasWithdrawn[2] /\ games[id].stakeAmount > 0
        /\ calls[id]["payout"] = 0
        /\ games[id].startTime >= games[id].openTime + CREATOR_TIMEOUT
        /\ other # id /\ calls[other]["payout"] > 0

\* C6: join guards.  joinGame on a game that is not open (never committed, closed or
\* not existing), with a payment other than stakeAmount, or by an account that has
\* joined already reverts and leaves players, hasJoined and the balance as they were.
C6_JoinGuards ==
    \A id \in GameIds, sender \in Addr, value \in Stakes \cup {LargeStake + 1} :
        LET g == games[id]
            r == joinGame(World, sender, value, id)
        IN  (~g.open \/ value # g.stakeAmount \/ g.hasJoined[sender]) =>
                /\ r.err # ""
                /\ r.w.games[id].players = g.players
                /\ r.w.games[id].hasJoined = g.hasJoined
                /\ r.w.balance = balance

\* An open game with a member, who is refused a second join with the exact stake.
C6_Witness ==
    \E id \in GameIds, sender \in Addr :
        /\ games[id].open /\ games[id].hasJoined[sender]
        /\ joinGame(World, sender, games[id].stakeAmount, id).err
               = "Player has already joined the game"

\* C7: commit once.  From a state where a game has hasCommitted, every commitHash on
\* it reverts, and every step leaves its committedHash, commitBlockNumber and
\* hasCommitted as they are.
C7_CommitOnce ==
    [][\A id \in GameIds :
           games[id].hasCommitted =>
               /\ \A sender \in Addr, _hash \in Bytes32 \cup {0} :
                      commitHash(World, sender, id, _hash, blockNumber, blockTimestamp).err # ""
               /\ games'[id].hasCommitted
               /\ games'[id].committedHash = games[id].committedHash
               /\ games'[id].commitBlockNumber = games[id].commitBlockNumber]_vars

\* A committed game, later: the chain has moved on and its gamemaster commits again,
\* another hash, in vain.
C7_Witness ==
    \E id \in GameIds, _hash \in Bytes32 :
        /\ games[id].hasCommitted /\ _hash # games[id].committedHash
        /\ blockNumber > games[id].commitBlockNumber
        /\ commitHash(World, games[id].gamemaster, id, _hash, blockNumber, blockTimestamp).err
               = "Hash has already been committed and cannot be committed again"

\* C8: reveal integrity.  revealHash with a value whose hash is not committedHash
\* reverts and changes nothing, so hasRevealed stays false and revealValue and
\* randomHash unset, and the commitment is still there for the right value; and
\* wherever hasRevealed is true, the hash of revealValue is committedHash.
C8_RevealIntegrity ==
    \A id \in GameIds :
        LET g == games[id] IN
        /\ g.hasRevealed => Keccak1(g.revealValue) = g.committedHash
        /\ ~g.hasRevealed => g.revealValue = 0 /\ g.randomHash = 0
        /\ \A sender \in Addr, _reveal \in Secrets :
               Keccak1(_reveal) # g.committedHash =>
                   LET r == revealHash(World, sender, id, _reveal, blockNumber)
                   IN  r.err # "" /\ r.w = World

\* A game ready to be revealed: the wrong value is refused for not matching, the
\* right one is accepted.
C8_Witness ==
    \E id \in GameIds, wrong, right \in Secrets :
        /\ ~games[id].hasRevealed
        /\ revealHash(World, games[id].gamemaster, id, wrong, blockNumber).err
               = "Reveal does not match the committed hash"
        /\ revealHash(World, games[id].gamemaster, id, right, blockNumber).err = ""

\* C9: once the gamemaster has committed the hash of a secret and the commit
\* checkpoint is reached (block.number >= commitBlockNumber), revealHash by the
\* gamemaster with that secret returns, sets hasRevealed, stores the secret as
\* revealValue and a non-zero randomHash.
C9_RevealAfterCheckpoint ==
    \A id \in GameIds, secret \in Secrets :
        LET g == games[id]
            r == revealHash(World, g.gamemaster, id, secret, blockNumber)
        IN  (/\ g.hasCommitted /\ ~g.hasRevealed
             /\ g.committedHash = Keccak1(secret)
             /\ blockNumber >= g.commitBlockNumber) =>
                /\ r.err = ""
                /\ r.w.games[id].hasRevealed
                /\ r.w.games[id].revealValue = secret
                /\ r.w.games[id].randomHash # 0

\* C10: randomness determinism.  After every step, a game with hasRevealed has
\* randomHash = keccak256(commitBlockHash, revealValue) of its own stored values and
\* of nothing else; and once hasRevealed, no step changes randomHash, revealValue or
\* commitBlockHash.
C10_RandomHashDetermined ==
    [][\A id \in GameIds :
           /\ games'[id].hasRevealed =>
                  games'[id].randomHash
                      = Keccak2(games'[id].commitBlockHash, games'[id].revealValue)
           /\ games[id].hasRevealed =>
                  /\ games'[id].hasRevealed
                  /\ games'[id].randomHash = games[id].randomHash
                  /\ games'[id].revealValue = games[id].revealValue
                  /\ games'[id].commitBlockHash = games[id].commitBlockHash]_vars

\* A revealed game that went on: it has players and was paid out after the reveal.
C10_Witness ==
    \E id \in GameIds :
        /\ games[id].hasRevealed /\ games[id].randomHash # 0
        /\ games[id].hasClosed /\ calls[id]["payout"] > 0

\* C11: abandonment.  On an open game with at least one player, closeGame called by
\* any account at or after openTime + CREATOR_TIMEOUT returns and closes the game;
\* called by an account other than the creator before that instant, or at any time
\* while the game has no players, it reverts and the game stays open.
C11_Abandonment ==
    \A id \in GameIds, sender \in Addr :
        LET g == games[id]
            deadline == g.openTime + CREATOR_TIMEOUT
        IN  g.open =>
                \A now \in AnyTime \cup {deadline - 1, deadline} :
                    LET r == closeGame(World, sender, id, now) IN
                    /\ (Len(g.players) > 0 /\ now >= deadline) =>
                           /\ r.err = ""
                           /\ r.w.games[id].hasClosed /\ ~r.w.games[id].open
                    /\ (sender # g.creator /\ (now < deadline \/ Len(g.players) = 0)) =>
                           /\ r.err # ""
                           /\ r.w = World

\* An open game with a player, CREATOR_TIMEOUT after it opened: an account that is
\* not its creator closes it, and could not have one second earlier.
C11_Witness ==
    \E id \in GameIds, sender \in Addr :
        LET g == games[id] IN
        /\ g.open /\ Len(g.players) > 0 /\ sender # g.creator
        /\ blockTimestamp = g.openTime + CREATOR_TIMEOUT
        /\ closeGame(World, sender, id, blockTimestamp).err = ""
        /\ closeGame(World, sender, id, blockTimestamp - 1).err = "Not authorized"

\* The clock values of C12: the current and later ones, and the two instants around
\* the payout deadline of game g when they are not in the past.
WithdrawTimes(g) ==
    {now \in AnyTime \cup {g.startTime + PAYOUT_TIMEOUT - 1, g.startTime + PAYOUT_TIMEOUT} :
        now >= blockTimestamp}

\* C12: withdrawal gating.  playerWithdraw returns only on a closed game where
\* canWithdraw is set already, or hasPaidOut is not set and PAYOUT_TIMEOUT has
\* elapsed since startTime.  On a game that is not closed, or closed with the
\* timeout not elapsed, or paid out, it reverts and changes nothing.  A call that
\* returns leaves canWithdraw and hasPaidOut both set: the first one sets them in
\* the step that pays.
C12_WithdrawalGating ==
    \A id \in GameIds, sender \in Addr, refusing \in AnyRefusals :
        LET g == games[id] IN
        \A now \in WithdrawTimes(g) :
            LET r == playerWithdraw(World, sender, id, now, refusing)
                timeoutReached == now >= g.startTime + PAYOUT_TIMEOUT
            IN  /\ r.err = "" =>
                       /\ g.hasClosed
                       /\ g.canWithdraw \/ (~g.hasPaidOut /\ timeoutReached)
                       /\ r.w.games[id].canWithdraw /\ r.w.games[id].hasPaidOut
                /\ (\/ ~g.hasClosed
                    \/ ~timeoutReached
                    \/ g.hasPaidOut /\ ~g.canWithdraw) =>
                       r.err # "" /\ r.w = World

\* A closed game at its payout deadline, neither paid out nor in withdrawal mode: a
\* player's withdrawal returns and sets both flags.
C12_Witness ==
    \E id \in GameIds, sender \in Addr :
        LET g == games[id]
            r == playerWithdraw(World, sender, id, blockTimestamp, {})
        IN  /\ g.hasClosed /\ ~g.canWithdraw /\ ~g.hasPaidOut
            /\ blockTimestamp = g.startTime + PAYOUT_TIMEOUT
            /\ r.err = ""
            /\ r.w.games[id].canWithdraw /\ r.w.games[id].hasPaidOut

\* C13: per-player withdrawal.  The playerWithdraw calls that returned on a game are
\* as many as its players marked hasWithdrawn, all of whom joined; a returning call
\* transfers exactly stakeAmount to the caller, to no one else, and marks the caller
\* alone; a call by a player marked hasWithdrawn or by an account that never joined
\* reverts and changes nothing; and once canWithdraw is set, the call of every joined
\* player not yet marked, who accepts the transfer, returns.
C13_PerPlayerWithdrawal ==
    \A id \in GameIds :
        LET g == games[id]
            withdrawn == {p \in Addr : g.hasWithdrawn[p]}
        IN  /\ calls[id]["playerWithdraw"] = Cardinality(withdrawn)
            /\ \A p \in withdrawn : g.hasJoined[p]
            /\ calls[id]["payout"] = 0 => sent[id] = g.stakeAmount * Cardinality(withdrawn)
            /\ \A p \in Addr, now \in AnyTime, refusing \in AnyRefusals :
                   LET r == playerWithdraw(World, p, id, now, refusing) IN
                   /\ (g.hasWithdrawn[p] \/ ~g.hasJoined[p]) => r.err # "" /\ r.w = World
                   /\ r.err = "" =>
                          /\ r.w.received = [received EXCEPT ![p] = @ + g.stakeAmount]
                          /\ r.w.balance = balance - g.stakeAmount
                          /\ r.w.games[id].hasWithdrawn = [g.hasWithdrawn EXCEPT ![p] = TRUE]
                   /\ (g.canWithdraw /\ g.hasJoined[p] /\ ~g.hasWithdrawn[p]
                           /\ p \notin refusing) => r.err = ""

\* A game in withdrawal mode while another game has been paid out: one player has
\* withdrawn and is refused a second time, the other player's call returns.
C13_Witness ==
    \E id, other \in GameIds, p, q \in Addr :
        LET g == games[id] IN
        /\ other # id /\ calls[other]["payout"] > 0
        /\ g.canWithdraw /\ g.hasWithdrawn[p] /\ received[p] >= g.stakeAmount
        /\ g.hasJoined[q] /\ ~g.hasWithdrawn[q]
        /\ playerWithdraw(World, p, id, blockTimestamp, {}).err
               = "Player has already withdrawn from this game"
        /\ playerWithdraw(World, q, id, blockTimestamp, {}).err = ""

\* C14: closeGame returns only on an open game; the step that closes a game sets
\* mapSize to 1 + 4 * |players| of the players at that instant (13 for three
\* players); mapSize is 0 as long as the game is not closed and no step changes it
\* once the game is closed.
C14_MapSizeAtClose ==
    /\ [](/\ calculatedMapSize([EmptyGame EXCEPT !.players = <<1, 2, 3>>]) = 13
          /\ \A id \in GameIds :
                 /\ ~games[id].hasClosed => games[id].mapSize = 0
                 /\ ~games[id].open =>
                        \A sender \in Addr, now \in AnyTime :
                            closeGame(World, sender, id, now).err # "")
    /\ [][\A id \in GameIds :
              /\ (~games[id].hasClosed /\ games'[id].hasClosed) =>
                     /\ games[id].open
                     /\ games'[id].mapSize = 1 + 4 * Len(games[id].players)
                     /\ games'[id].players = games[id].players
              /\ games[id].hasClosed =>
                     games'[id].hasClosed /\ games'[id].mapSize = games[id].mapSize]_vars

\* A game closed with two players, mapSize 9, that went on to its settlement.
C14_Witness ==
    \E id \in GameIds :
        /\ games[id].hasClosed /\ Len(games[id].players) = 2 /\ games[id].mapSize = 9
        /\ games[id].hasPaidOut

\* C15: the players are locked by close.  In every state where a game has hasClosed,
\* every joinGame on it reverts and mapSize = 1 + 4 * |players|; and no step changes
\* players or hasJoined of a game that has hasClosed.
C15_PlayersLockedByClose ==
    /\ [](\A id \in GameIds :
              games[id].hasClosed =>
                  /\ games[id].mapSize = 1 + 4 * Len(games[id].players)
                  /\ \A sender \in Addr, value \in Stakes :
                         joinGame(World, sender, value, id).err # "")
    /\ [][\A id \in GameIds :
              games[id].hasClosed =>
                  /\ games'[id].players = games[id].players
                  /\ games'[id].hasJoined = games[id].hasJoined]_vars

\* A closed game with one player: the other account offers the exact stake and is
\* refused.
C15_Witness ==
    \E id \in GameIds, sender \in Addr :
        LET g == games[id] IN
        /\ g.hasClosed /\ Len(g.players) = 1 /\ ~g.hasJoined[sender]
        /\ joinGame(World, sender, g.stakeAmount, id).err = "Game is not open for joining"

\* The lifecycle flags of struct Game.
LifecycleFlags ==
    {"hasOpened", "hasClosed", "hasCommitted", "hasStoredBlockHash", "hasRevealed",
     "hasPaidOut", "canWithdraw"}

\* C16: the lifecycle is one-way.  No step resets hasOpened, hasClosed, hasCommitted,
\* hasStoredBlockHash, hasRevealed, hasPaidOut, canWithdraw or any hasWithdrawn[p] of
\* a game, and no step changes gamemaster, creator or stakeAmount of a created game.
C16_OneWayLifecycle ==
    [][\A id \in GameIds :
           /\ \A flag \in LifecycleFlags : games[id][flag] => games'[id][flag]
           /\ \A p \in Addr : games[id].hasWithdrawn[p] => games'[id].hasWithdrawn[p]
           /\ Exists(games[id]) =>
                  /\ games'[id].gamemaster = games[id].gamemaster
                  /\ games'[id].creator = games[id].creator
                  /\ games'[id].stakeAmount = games[id].stakeAmount]_vars

\* A game with every lifecycle flag set and a player who has withdrawn.
C16_Witness ==
    \E id \in GameIds, p \in Addr :
        /\ \A flag \in LifecycleFlags : games[id][flag]
        /\ games[id].hasWithdrawn[p]

C18_CommitOpensGame ==
    /\ [](\A id \in GameIds :
              LET g == games[id] IN
              /\ (Len(g.players) > 0 \/ g.open) => g.hasCommitted
              /\ ~g.hasCommitted =>
                     \A sender \in Addr, value \in Stakes :
                         joinGame(World, sender, value, id).err # "")
    /\ [][\A id \in GameIds :
              /\ (~games[id].hasCommitted /\ games'[id].hasCommitted) =>
                     games'[id].open /\ games'[id].hasOpened
              /\ (~games[id].open /\ games'[id].open) =>
                     /\ ~games[id].hasCommitted /\ games'[id].hasCommitted
                     /\ calls'[id]["commitHash"] = calls[id]["commitHash"] + 1
              /\ games'[id].players # games[id].players =>
                     /\ games[id].hasCommitted
                     /\ games'[id].committedHash = games[id].committedHash]_vars

\* A game committed once, open, with a player.
C18_Witness ==
    \E id \in GameIds :
        /\ games[id].hasCommitted /\ games[id].open /\ Len(games[id].players) > 0
        /\ calls[id]["commitHash"] = 1

\* C19: registry identifiers.  nextGameId is 1 at first; a step leaves it as it is
\* or is a returning createGame, which adds exactly 1 and sets the gamemaster of the
\* game with the old value as id, an id that was not valid before; in every state
\* an id is valid (gamemaster set) iff 1 <= id < nextGameId; and a createGame that
\* reverts leaves nextGameId and every game as they were.
C19_RegistryIdentifiers ==
    /\ nextGameId = 1
    /\ [](/\ \A id \in GameIds :
                 /\ Exists(games[id]) <=> (1 <= id /\ id < nextGameId)
                 /\ calls[id]["createGame"] = IF Exists(games[id]) THEN 1 ELSE 0
          /\ \A sender \in Addr, _gamemaster \in {ZeroAddr} \cup Addr, _stakeAmount \in Stakes :
                 LET r == createGame(World, sender, _gamemaster, _stakeAmount) IN
                 IF r.err = "" THEN r.w.nextGameId = nextGameId + 1 ELSE r.w = World)
    /\ [][LET created == \E id \in GameIds :
                             calls'[id]["createGame"] # calls[id]["createGame"]
          IN  IF created
              THEN /\ nextGameId' = nextGameId + 1
                   /\ ~Exists(games[nextGameId]) /\ Exists(games'[nextGameId])
                   /\ calls'[nextGameId]["createGame"] = 1
              ELSE nextGameId' = nextGameId]_vars

\* Two games created one after the other, with ids 1 and 2.
C19_Witness ==
    /\ nextGameId = 3
    /\ Exists(games[1]) /\ Exists(games[2]) /\ ~Exists(games[0])

\* The game a returning createGame leaves at the new id: the three arguments and
\* every other field of struct Game at its default (not open, no players, every flag
\* false).
CreatedGame(sender, _gamemaster, _stakeAmount) ==
    [EmptyGame EXCEPT !.gamemaster = _gamemaster,
                      !.creator = sender,
                      !.stakeAmount = _stakeAmount]

\* C20: createGame with address(0) as gamemaster or with stake 0 reverts and changes
\* nothing; with any other arguments it returns, the game at the new id is
\* CreatedGame of the caller and the arguments, and nothing else changes: no other
\* game, not the balance, no transfer.
C20_CreateGameFrame ==
    \A sender \in Addr, _gamemaster \in {ZeroAddr} \cup Addr, _stakeAmount \in Stakes :
        LET r == createGame(World, sender, _gamemaster, _stakeAmount) IN
        IF _gamemaster = ZeroAddr \/ _stakeAmount = 0
        THEN r.err # "" /\ r.w = World
        ELSE /\ r.err = ""
             /\ nextGameId \in GameIds =>
                    /\ r.w.games[nextGameId] = CreatedGame(sender, _gamemaster, _stakeAmount)
                    /\ \A id \in GameIds \ {nextGameId} : r.w.games[id] = games[id]
             /\ r.w.balance = balance
             /\ r.w.sent = sent
             /\ r.w.received = received

\* A second game just created, as CreatedGame describes it, beside a first game that
\* holds stakes.
C20_Witness ==
    \E sender \in Addr :
        /\ games[2] = CreatedGame(sender, games[2].gamemaster, games[2].stakeAmount)
        /\ Exists(games[2])
        /\ Len(games[1].players) > 0 /\ balance > 0

\* The results of the four gamemaster functions called by sender on game id in the
\* current state, for every choice of their other arguments.
GamemasterCalls(sender, id) ==
    {commitHash(World, sender, id, _hash, blockNumber, blockTimestamp) :
         _hash \in Bytes32 \cup {0}}
    \cup {storeCommitBlockHash(World, sender, id, _url, blockNumber) : _url \in Urls}
    \cup {revealHash(World, sender, id, _reveal, blockNumber) : _reveal \in Secrets}
    \cup {payout(World, sender, id, _winners, refusing) :
              _winners \in WinnerLists, refusing \in AnyRefusals}

\* C21: authorization.  commitHash, storeCommitBlockHash, revealHash and payout on a
\* game return only when called by its gamemaster; called by any other account, the
\* creator and the players included, in whatever state the game is, they revert and
\* leave every game, the balance and what every account has received unchanged.
C21_Authorization ==
    \A id \in GameIds, sender \in Addr :
        \A r \in GamemasterCalls(sender, id) :
            /\ r.err = "" => sender = games[id].gamemaster
            /\ sender # games[id].gamemaster => r.err # "" /\ r.w = World

\* A closed game with stakes whose creator, a player, is not its gamemaster: payout
\* to the creator returns when the gamemaster calls and reverts when the creator does.
C21_Witness ==
    \E id \in GameIds :
        LET g == games[id] IN
        /\ g.creator # g.gamemaster /\ g.hasJoined[g.creator] /\ g.hasClosed
        /\ payout(World, g.gamemaster, id, <<g.creator>>, {}).err = ""
        /\ payout(World, g.creator, id, <<g.creator>>, {}).err = "Not authorized"

\* How many entries of _winners are account a.
Entries(_winners, a) == Cardinality({i \in 1..Len(_winners) : _winners[i] = a})

\* C22: payout amounts.  A payout that returns, on a game with pool
\* stakeAmount * |players|, has transferred floor(pool / 100) to the gamemaster
\* and floor((pool - floor(pool / 100)) / |winners|) to every entry of _winners and
\* nothing else, and has recorded _winners and that amount; a cut of zero is not
\* transferred, so a gamemaster who refuses payments does not stop it.  Stake 1000
\* with three players and two winners gives 30 and 1485.
C22_PayoutAmounts ==
    /\ gamemasterCut(3000) = 30 /\ amountPerWinner(3000, 2) = 1485
    /\ \A id \in GameIds, sender \in Addr, _winners \in WinnerLists, refusing \in AnyRefusals :
           LET g == games[id]
               r == payout(World, sender, id, _winners, refusing)
               pool == g.stakeAmount * Len(g.players)
               cut == pool \div 100
               perWinner == (pool - cut) \div Len(_winners)
           IN  r.err = "" =>
                   /\ r.w.received =
                          [a \in Addr |-> received[a] + perWinner * Entries(_winners, a)
                                              + (IF a = g.gamemaster THEN cut ELSE 0)]
                   /\ r.w.balance = balance - cut - perWinner * Len(_winners)
                   /\ r.w.games[id].winners = _winners
                   /\ r.w.games[id].payoutAmount = perWinner
                   /\ r.w.games[id].hasPaidOut
                   /\ g.gamemaster \in refusing => cut = 0

\* A paid-out game with two players at stake LargeStake and two winners: the cut was
\* 2, each winner's amount 99, and the gamemaster has received its cut.
C22_Witness ==
    \E id \in GameIds :
        LET g == games[id] IN
        /\ calls[id]["payout"] = 1 /\ g.stakeAmount = LargeStake
        /\ Len(g.players) = 2 /\ Len(g.winners) = 2 /\ g.payoutAmount = 99
        /\ sent[id] = 200 /\ received[g.gamemaster] >= 2

\* C23: payout preconditions.  payout with an empty _winners, on a game without
\* players, or with a per-winner amount of zero reverts: hasPaidOut and everything
\* else is as before and nothing is transferred.  A payout that returns has recorded
\* a per-winner amount above zero and has transferred it.
C23_PayoutPreconditions ==
    \A id \in GameIds, sender \in Addr, _winners \in WinnerLists, refusing \in AnyRefusals :
        LET g == games[id]
            r == payout(World, sender, id, _winners, refusing)
            pool == g.stakeAmount * Len(g.players)
            noAmount == Len(_winners) > 0 /\ (pool - pool \div 100) \div Len(_winners) = 0
        IN  /\ (Len(_winners) = 0 \/ Len(g.players) = 0 \/ noAmount) =>
                   r.err # "" /\ r.w = World
            /\ r.err = "" =>
                   /\ r.w.games[id].payoutAmount > 0
                   /\ r.w.sent[id] >= sent[id] + r.w.games[id].payoutAmount
                   /\ \A i \in 1..Len(_winners) : r.w.received[_winners[i]] > received[_winners[i]]

\* A game with one player at stake 1, not paid out: payout to two winners is refused
\* for its amount of zero, payout to one of them returns.
C23_Witness ==
    \E id \in GameIds :
        LET g == games[id] IN
        /\ g.stakeAmount = 1 /\ Len(g.players) = 1 /\ ~g.hasPaidOut
        /\ payout(World, g.gamemaster, id, <<1, 2>>, {}).err
               = "Payout amount per winner must be greater than 0"
        /\ payout(World, g.gamemaster, id, <<1>>, {}).err = ""

\* C24: payout is atomic.  When payout passes its requires and the gamemaster (for a
\* cut above zero) or any winner refuses the transfer, the call reverts: nothing is
\* kept by any recipient, hasPaidOut, winners and payoutAmount are as before, and
\* the same payout with every recipient accepting, or a player's withdrawal once the
\* game is closed and PAYOUT_TIMEOUT has elapsed, still returns.
C24_PayoutAtomic ==
    \A id \in GameIds, _winners \in WinnerLists, refusing \in AnyRefusals :
        LET g == games[id]
            r == payout(World, g.gamemaster, id, _winners, refusing)
            pool == g.stakeAmount * Len(g.players)
            refused == \/ pool \div 100 > 0 /\ g.gamemaster \in refusing
                       \/ \E i \in 1..Len(_winners) : _winners[i] \in refusing
            later == IF blockTimestamp >= g.startTime + PAYOUT_TIMEOUT
                     THEN blockTimestamp ELSE g.startTime + PAYOUT_TIMEOUT
        IN  (Exists(g) /\ payoutRequires(g, _winners) = "" /\ refused) =>
                /\ r.err # ""
                /\ r.w = World
                /\ payout(r.w, g.gamemaster, id, _winners, {}).err = ""
                /\ g.hasClosed =>
                       \A p \in Addr :
                           g.hasJoined[p] => playerWithdraw(r.w, p, id, later, {}).err = ""

\* A closed game with two players at LargeStake: with the second winner refusing,
\* payout to both reverts although the cut and the first winner could be paid.
C24_Witness ==
    \E id \in GameIds :
        LET g == games[id] IN
        /\ g.hasClosed /\ Len(g.players) = 2 /\ g.stakeAmount = LargeStake
        /\ payout(World, g.gamemaster, id, <<1, 2>>, {2}).err
               = "Failed to send payout to winner"
        /\ payout(World, g.gamemaster, id, <<1, 2>>, {}).err = ""

\* C25: reentrancy.  When a transfer of payout or playerWithdraw hands control to its
\* recipient, hasPaidOut (for payout) and hasWithdrawn of the caller (for
\* playerWithdraw) are set already, and every payout and every playerWithdraw on the
\* same game that the recipient calls from there reverts on a require, before any
\* transfer is tried: it receives nothing twice.
C25_ReentrancyRejected ==
    \A id \in GameIds :
        LET g == games[id]
            FailedTransfer == {"Failed to send payout to gamemaster",
                               "Failed to send payout to winner",
                               "Failed to send withdrawal to player"}
            Rejected(pt) ==
                /\ \A _winners \in WinnerLists, refusing \in AnyRefusals :
                       payout(pt.w, pt.to, id, _winners, refusing).err
                           \notin {""} \cup FailedTransfer
                /\ \A refusing \in AnyRefusals :
                       playerWithdraw(pt.w, pt.to, id, blockTimestamp, refusing).err
                           \notin {""} \cup FailedTransfer
        IN  /\ \A _winners \in WinnerLists :
                   (Exists(g) /\ payoutRequires(g, _winners) = "") =>
                       \A pt \in DuringPayout(World, id, _winners) :
                           pt.w.games[id].hasPaidOut /\ Rejected(pt)
            /\ \A sender \in Addr :
                   playerWithdraw(World, sender, id, blockTimestamp, {}).err = "" =>
                       \A pt \in DuringWithdraw(World, sender, id) :
                           pt.w.games[id].hasWithdrawn[sender] /\ Rejected(pt)

\* A closed game past its payout deadline whose gamemaster is a player: the
\* gamemaster could call payout to itself and could withdraw, so a call of one from
\* within the transfer of the other would pay it twice if it returned.
C25_Witness ==
    \E id \in GameIds :
        LET g == games[id] IN
        /\ g.hasClosed /\ g.hasJoined[g.gamemaster] /\ Len(g.players) = 2
        /\ payout(World, g.gamemaster, id, <<g.gamemaster>>, {}).err = ""
        /\ playerWithdraw(World, g.gamemaster, id, blockTimestamp, {}).err = ""

\* C26: payout comes after close and reveal.  A payout returns only on a game with
\* hasClosed and hasRevealed, and on a game where a payout has returned every
\* joinGame reverts.
C26_PayoutAfterCloseAndReveal ==
    \A id \in GameIds :
        LET g == games[id] IN
        /\ \A sender \in Addr, _winners \in WinnerLists, refusing \in AnyRefusals :
               payout(World, sender, id, _winners, refusing).err = "" =>
                   g.hasClosed /\ g.hasRevealed
        /\ calls[id]["payout"] > 0 =>
               \A sender \in Addr, value \in Stakes :
                   joinGame(World, sender, value, id).err # ""

\* C27: reveal comes after close.  revealHash returns only on a game with hasClosed,
\* never on a game that is open for joining, so a revealed game is a closed game.
C27_RevealAfterClose ==
    \A id \in GameIds :
        LET g == games[id] IN
        /\ \A sender \in Addr, _reveal \in Secrets :
               revealHash(World, sender, id, _reveal, blockNumber).err = "" =>
                   g.hasClosed /\ ~g.open
        /\ g.hasRevealed => g.hasClosed

\* The retention window of blockhash has passed the checkpoint of game g at block
\* "number" and the block hash was never stored.
EntropyLapsed(g, number) ==
    /\ g.hasCommitted
    /\ ~g.hasStoredBlockHash
    /\ number - g.commitBlockNumber > BLOCKHASH_WINDOW

C29_StoreOnce ==
    /\ [](\A id \in GameIds :
            LET g == games[id] IN
            /\ calls[id]["storeCommitBlockHash"] <= 1
            /\ \A sender \in Addr, _url \in Urls :
                   storeCommitBlockHash(World, sender, id, _url, blockNumber).err = "" =>
                       /\ sender = g.gamemaster
                       /\ g.hasCommitted
                       /\ blockNumber >= g.commitBlockNumber
                       /\ ~g.hasStoredBlockHash)
    /\ [][\A id \in GameIds :
              games[id].hasStoredBlockHash =>
                  /\ games'[id].hasStoredBlockHash
                  /\ games'[id].commitBlockHash = games[id].commitBlockHash
                  /\ games'[id].url = games[id].url]_vars

\* The block hash of a game was stored with its url, and the gamemaster's next store,
\* with another url, is rejected for that reason.
C29_Witness ==
    \E id \in GameIds :
        LET g == games[id] IN
        /\ calls[id]["storeCommitBlockHash"] = 1
        /\ g.hasStoredBlockHash /\ g.commitBlockHash # 0 /\ g.url = "http://game"
        /\ blockNumber > g.commitBlockNumber
        /\ storeCommitBlockHash(World, g.gamemaster, id, "http://mirror", blockNumber).err
               = "Block hash has already been stored"

\* C30: the commitment is fixed before the block hash exists.  A commitHash that returns
\* in block n sets commitBlockNumber to a later block, whose hash blockhash does not
\* give in block n; a stored commitBlockHash is the hash of block commitBlockNumber and
\* of no other block; and on a committed game committedHash and commitBlockNumber keep
\* their values in every step.
C30_CommitBeforeSample ==
    /\ [](\A id \in GameIds :
            LET g == games[id] IN
            /\ \A sender \in Addr, _hash \in Bytes32 :
                   LET r == commitHash(World, sender, id, _hash, blockNumber, blockTimestamp)
                   IN  r.err = "" =>
                           /\ r.w.games[id].commitBlockNumber > blockNumber
                           /\ blockhash(r.w.games[id].commitBlockNumber, blockNumber) = 0
                           /\ r.w.games[id].committedHash = _hash
            /\ g.hasStoredBlockHash =>
                   /\ g.commitBlockHash = BlockHashOf(g.commitBlockNumber)
                   /\ \A n \in 0..LapseBlock :
                          n # g.commitBlockNumber => g.commitBlockHash # BlockHashOf(n))
    /\ [][\A id \in GameIds :
              games[id].hasCommitted =>
                  /\ games'[id].hasCommitted
                  /\ games'[id].committedHash = games[id].committedHash
                  /\ games'[id].commitBlockNumber = games[id].commitBlockNumber]_vars

\* A block hash is stored, the latest block of the chain has another hash, and a
\* second commitHash by the gamemaster is rejected.
C30_Witness ==
    \E id \in GameIds :
        LET g == games[id] IN
        /\ calls[id]["commitHash"] = 1 /\ calls[id]["storeCommitBlockHash"] = 1
        /\ g.hasStoredBlockHash
        /\ blockNumber >= BLOCKHASH_WINDOW
        /\ blockhash(blockNumber - 1, blockNumber) # g.commitBlockHash
        /\ \A _hash \in Bytes32 :
               commitHash(World, g.gamemaster, id, _hash, blockNumber, blockTimestamp).err # ""

\* C31: a completed transition is not repeated.  On a closed game every closeGame
\* reverts, for the creator and for anyone else at any later time, and on a revealed
\* game every revealHash reverts, the revealed secret included; the storage is left as
\* it was, and startTime, mapSize, revealValue and randomHash keep their values in
\* every step.
C31_NoRepeatedTransition ==
    /\ [](\A id \in GameIds :
            LET g == games[id] IN
            /\ g.hasClosed =>
                   \A sender \in Addr, now \in AnyTime :
                       LET r == closeGame(World, sender, id, now)
                       IN  r.err # "" /\ r.w = World
            /\ g.hasRevealed =>
                   \A sender \in Addr, _reveal \in Secrets :
                       LET r == revealHash(World, sender, id, _reveal, blockNumber)
                       IN  r.err # "" /\ r.w = World)
    /\ [][\A id \in GameIds :
              /\ games[id].hasClosed =>
                     /\ games'[id].startTime = games[id].startTime
                     /\ games'[id].mapSize = games[id].mapSize
              /\ games[id].hasRevealed =>
                     /\ games'[id].revealValue = games[id].revealValue
                     /\ games'[id].randomHash = games[id].randomHash]_vars

\* A closed and revealed game with a player, at a time when the game would count as
\* abandoned and the revealed secret still matches the commitment.
C31_Witness ==
    \E id \in GameIds :
        LET g == games[id] IN
        /\ g.hasClosed /\ g.hasRevealed
        /\ calls[id]["closeGame"] = 1 /\ calls[id]["revealHash"] = 1
        /\ gameIsAbandoned(g, blockTimestamp)
        /\ Keccak1(g.revealValue) = g.committedHash

\* Every call of every function in the current state, with every argument, payment,
\* later clock value and refusing recipient.
AnyCall ==
    {createGame(World, sender, _gamemaster, _stakeAmount) :
         sender \in Addr, _gamemaster \in {ZeroAddr} \cup Addr, _stakeAmount \in Stakes}
    \cup UNION {
        {closeGame(World, sender, id, now) : now \in AnyTime}
        \cup {joinGame(World, sender, value, id) : value \in Stakes}
        \cup {commitHash(World, sender, id, _hash, blockNumber, blockTimestamp) :
                  _hash \in Bytes32}
        \cup {storeCommitBlockHash(World, sender, id, _url, blockNumber) : _url \in Urls}
        \cup {revealHash(World, sender, id, _reveal, blockNumber) : _reveal \in Secrets}
        \cup {payout(World, sender, id, _winners, refusing) :
                  _winners \in WinnerLists, refusing \in AnyRefusals}
        \cup {playerWithdraw(World, sender, id, now, refusing) :
                  now \in AnyTime, refusing \in AnyRefusals} :
        sender \in Addr, id \in GameIds}

\* C32: every function is all-or-nothing.  A call that reverts, whatever the reason
\* (caller, state, argument, failed transfer), returns nextGameId, every game, the
\* contract's balance and what every account received exactly as it found them.
C32_AllOrNothing ==
    \A r \in AnyCall : r.err # "" => r.w = World

\* A payout to two winners can be made whose first transfer goes through and whose
\* second is refused, and calls of the other functions are rejected as well.
C32_Witness ==
    \E id \in GameIds, _winners \in WinnerLists :
        LET g == games[id] IN
        /\ Len(_winners) = 2
        /\ amountPerWinner(g.stakeAmount * Len(g.players), 2) > 0
        /\ payout(World, g.gamemaster, id, _winners, {_winners[2]}).err
               = "Failed to send payout to winner"
        /\ CanSend(storeWinners(World, id, _winners), _winners[1],
                   amountPerWinner(g.stakeAmount * Len(g.players), 2), {_winners[2]})
        /\ \E r \in AnyCall : r.err = "Reveal does not match the committed hash"
        /\ \E r \in AnyCall : r.err = "Player has already joined the game"

\* What the contract holds for game id: the stakes paid in minus what was sent out.
Escrow(w, id) == w.games[id].stakeAmount * Len(w.games[id].players) - w.sent[id]

RECURSIVE EscrowOf(_, _)
EscrowOf(w, ids) ==
    IF ids = {} THEN 0
    ELSE LET id == CHOOSE x \in ids : TRUE
         IN  Escrow(w, id) + EscrowOf(w, ids \ {id})

\* The contract with game id alone: every other game is absent and the balance is
\* without what is held for them.
Alone(w, id) ==
    [w EXCEPT !.games = [x \in GameIds |-> IF x = id THEN w.games[x] ELSE EmptyGame],
              !.balance = @ - EscrowOf(w, GameIds \ {id})]

\* Result r of a call on game id changes no other game, and result ra of the same call
\* in another storage reverts for the same reason or leaves game id the same.
Isolated(id, r, ra) ==
    /\ \A x \in GameIds \ {id} : r.w.games[x] = games[x]
    /\ r.err = ra.err
    /\ r.w.games[id] = ra.w.games[id]

\* C33: games are isolated.  A call on game id changes no field of another game, and
\* createGame changes no game but the one it allocates; in every step at most one game
\* changes; and every call on game id has the same result, on the same arguments, in
\* the contract that holds game id alone.
C33_GamesIsolated ==
    /\ [](/\ \A id \in 1..MaxGames :
                LET w == World
                    a == Alone(World, id)
                IN  \A sender \in Addr :
                    /\ \A now \in AnyTime :
                           Isolated(id, closeGame(w, sender, id, now),
                                        closeGame(a, sender, id, now))
                    /\ \A value \in Stakes :
                           Isolated(id, joinGame(w, sender, value, id),
                                        joinGame(a, sender, value, id))
                    /\ \A _hash \in Bytes32 :
                           Isolated(id, commitHash(w, sender, id, _hash, blockNumber, blockTimestamp),
                                        commitHash(a, sender, id, _hash, blockNumber, blockTimestamp))
                    /\ \A _url \in Urls :
                           Isolated(id, storeCommitBlockHash(w, sender, id, _url, blockNumber),
                                        storeCommitBlockHash(a, sender, id, _url, blockNumber))
                    /\ \A _reveal \in Secrets :
                           Isolated(id, revealHash(w, sender, id, _reveal, blockNumber),
                                        revealHash(a, sender, id, _reveal, blockNumber))
                    /\ \A _winners \in WinnerLists, refusing \in AnyRefusals :
                           Isolated(id, payout(w, sender, id, _winners, refusing),
                                        payout(a, sender, id, _winners, refusing))
                    /\ \A now \in AnyTime, refusing \in AnyRefusals :
                           Isolated(id, playerWithdraw(w, sender, id, now, refusing),
                                        playerWithdraw(a, sender, id, now, refusing))
          /\ \A sender \in Addr, _gamemaster \in {ZeroAddr} \cup Addr, _stakeAmount \in Stakes :
                 LET r == createGame(World, sender, _gamemaster, _stakeAmount)
                 IN  nextGameId \in GameIds =>
                         \A x \in GameIds \ {nextGameId} : r.w.games[x] = games[x])
    /\ [][\A a, b \in GameIds : a # b => games'[a] = games[a] \/ games'[b] = games[b]]_vars

\* Two games with players, one closed and in withdrawal mode with a player who joined
\* both, the other revealed and still to be settled.
C33_Witness ==
    \E id, other \in GameIds :
        /\ id # other
        /\ games[id].canWithdraw /\ calls[id]["playerWithdraw"] > 0
        /\ games[other].hasRevealed /\ ~games[other].hasPaidOut
        /\ \E a \in Addr :
               games[id].hasWithdrawn[a] /\ games[other].hasJoined[a]
                   /\ ~games[other].hasWithdrawn[a]

\* Every call of a function that takes a game id, on game id in the current state.
CallsOn(id) ==
    UNION {
        {closeGame(World, sender, id, now) : now \in AnyTime}
        \cup {joinGame(World, sender, value, id) : value \in Stakes}
        \cup {commitHash(World, sender, id, _hash, blockNumber, blockTimestamp) :
                  _hash \in Bytes32}
        \cup {storeCommitBlockHash(World, sender, id, _url, blockNumber) : _url \in Urls}
        \cup {revealHash(World, sender, id, _reveal, blockNumber) : _reveal \in Secrets}
        \cup {payout(World, sender, id, _winners, refusing) :
                  _winners \in WinnerLists, refusing \in AnyRefusals}
        \cup {playerWithdraw(World, sender, id, now, refusing) :
                  now \in AnyTime, refusing \in AnyRefusals} :
        sender \in Addr}

C35_PlayersAppendOnly ==
    /\ [](\A id \in GameIds :
            LET players == games[id].players IN
            /\ \A i, j \in 1..Len(players) : players[i] = players[j] => i = j
            /\ \A p \in Addr : games[id].hasJoined[p] <=> \E i \in 1..Len(players) : players[i] = p)
    /\ [][\A id \in GameIds :
              \/ games'[id].players = games[id].players
              \/ \E sender \in Addr :
                     /\ games'[id].players = Append(games[id].players, sender)
                     /\ joinGame(World, sender, games[id].stakeAmount, id).err = ""
                     /\ calls'[id]["joinGame"] = calls[id]["joinGame"] + 1]_vars

\* Account 2 joined before account 1, and the game went on to be closed.
C35_Witness ==
    \E id \in GameIds :
        /\ games[id].players = <<2, 1>>
        /\ calls[id]["joinGame"] = 2
        /\ games[id].hasClosed

\* C36 as claimed: the timeouts are strict.  When exactly CREATOR_TIMEOUT has elapsed
\* since a game opened, closeGame by an account other than the creator reverts, and
\* when exactly PAYOUT_TIMEOUT has elapsed since it closed, the first playerWithdraw
\* reverts.
C36_TimeoutsStrict ==
    \A id \in GameIds, sender \in Addr :
        LET g == games[id] IN
        /\ (g.open /\ sender # g.creator /\ blockTimestamp - g.openTime = CREATOR_TIMEOUT) =>
               closeGame(World, sender, id, blockTimestamp).err # ""
        /\ (g.hasClosed /\ ~g.canWithdraw /\ blockTimestamp - g.startTime = PAYOUT_TIMEOUT) =>
               playerWithdraw(World, sender, id, blockTimestamp, {}).err # ""

\* C36 as the contract has it: the timeouts are inclusive.  On an open game with a
\* player, closeGame by an account other than the creator returns iff at least
\* CREATOR_TIMEOUT has elapsed since openTime; on a closed game neither paid out nor in
\* withdrawal mode, playerWithdraw by a player returns iff at least PAYOUT_TIMEOUT has
\* elapsed since startTime.  Both return at the instant of the timeout and revert one
\* second before it.
C36_TimeoutsInclusive ==
    \A id \in GameIds, sender \in Addr :
        LET g == games[id] IN
        /\ (g.open /\ Len(g.players) > 0 /\ sender # g.creator) =>
               \A elapsed \in {CREATOR_TIMEOUT - 1, CREATOR_TIMEOUT, CREATOR_TIMEOUT + 1} :
                   closeGame(World, sender, id, g.openTime + elapsed).err = ""
                       <=> elapsed >= CREATOR_TIMEOUT
        /\ (g.hasClosed /\ ~g.hasPaidOut /\ ~g.canWithdraw /\ g.hasJoined[sender]) =>
               \A elapsed \in {PAYOUT_TIMEOUT - 1, PAYOUT_TIMEOUT, PAYOUT_TIMEOUT + 1} :
                   playerWithdraw(World, sender, id, g.startTime + elapsed, {}).err = ""
                       <=> elapsed >= PAYOUT_TIMEOUT

\* A game closed exactly CREATOR_TIMEOUT after it opened, and a first withdrawal made
\* exactly PAYOUT_TIMEOUT after it closed.
C36_Witness ==
    \E id \in GameIds :
        LET g == games[id] IN
        /\ g.startTime = g.openTime + CREATOR_TIMEOUT
        /\ blockTimestamp = g.startTime + PAYOUT_TIMEOUT
        /\ g.canWithdraw /\ calls[id]["playerWithdraw"] = 1

\* C37: the block hash can be stored from the checkpoint on.  On a committed game
\* without a stored block hash, storeCommitBlockHash by the gamemaster with a
\* non-empty url returns in every block from commitBlockNumber on, that block included,
\* up to BLOCKHASH_WINDOW blocks later.
C37_StoreFromCheckpoint ==
    \A id \in GameIds, _url \in Urls \ {""} :
        LET g == games[id] IN
        (/\ g.hasCommitted /\ ~g.hasStoredBlockHash
         /\ blockNumber >= g.commitBlockNumber
         /\ blockNumber - g.commitBlockNumber <= BLOCKHASH_WINDOW) =>
            storeCommitBlockHash(World, g.gamemaster, id, _url, blockNumber).err = ""

\* C38: the contract is solvent game by game.  The balance is at least the sum of what
\* is held for each game, and what is held for a game is never negative; a payout or
\* withdrawal whose recipients accept the payment never fails for lack of funds, and
\* it leaves what is held for its game non-negative and the balance at least what is
\* held for the other games.
C38_Solvency ==
    /\ balance >= EscrowOf(World, GameIds)
    /\ \A id \in GameIds :
           LET FailedTransfer == {"Failed to send payout to gamemaster",
                                  "Failed to send payout to winner",
                                  "Failed to send withdrawal to player"}
               Funded(r) ==
                   /\ r.err \notin FailedTransfer
                   /\ Escrow(r.w, id) >= 0
                   /\ r.w.balance >= EscrowOf(World, GameIds \ {id})
           IN  /\ Escrow(World, id) >= 0
               /\ \A sender \in Addr :
                      /\ \A _winners \in WinnerLists :
                             Funded(payout(World, sender, id, _winners, {}))
                      /\ \A now \in AnyTime :
                             Funded(playerWithdraw(World, sender, id, now, {}))

\* One game is being settled by withdrawals while another, with both players in it,
\* holds its stakes and can be paid out to two winners.
C38_Witness ==
    \E id, other \in GameIds :
        /\ id # other
        /\ calls[id]["playerWithdraw"] > 0
        /\ Len(games[other].players) = 2 /\ ~games[other].hasPaidOut
        /\ Escrow(World, other) = 2 * games[other].stakeAmount
        /\ balance = Escrow(World, id) + Escrow(World, other)
        /\ payout(World, games[other].gamemaster, other, <<1, 2>>, {}).err = ""

\* C39: the withdrawal view agrees with the withdrawal guard.  At every clock value,
\* canWithdrawNow of getWithdrawalInfo holds iff playerWithdraw returns for a player of
\* the game who has not withdrawn and accepts the transfer; and timeUntilWithdrawal is 0
\* iff the game is not closed or PAYOUT_TIMEOUT has elapsed since startTime.
C39_WithdrawalViewAgrees ==
    \A id \in GameIds :
        LET g == games[id] IN
        Exists(g) =>
            \A now \in WithdrawTimes(g) :
                LET info == getWithdrawalInfo(World, id, now).val IN
                /\ getWithdrawalInfo(World, id, now).err = ""
                /\ \A sender \in Addr :
                       (g.hasJoined[sender] /\ ~g.hasWithdrawn[sender]) =>
                           (info.canWithdrawNow
                                <=> playerWithdraw(World, sender, id, now, {}).err = "")
                /\ info.timeUntilWithdrawal = 0
                       <=> (~g.hasClosed \/ now >= g.startTime + PAYOUT_TIMEOUT)
                /\ info.startTime = g.startTime /\ info.canWithdraw = g.canWithdraw

\* A closed game at its payout deadline with a player who has not withdrawn: the view
\* says yes and the withdrawal returns, and one second earlier the view says no, with
\* one second to go.
C39_Witness ==
    \E id \in GameIds, sender \in Addr :
        LET g == games[id]
            deadline == g.startTime + PAYOUT_TIMEOUT
        IN  /\ g.hasClosed /\ g.hasJoined[sender] /\ ~g.hasWithdrawn[sender]
            /\ blockTimestamp = deadline
            /\ getWithdrawalInfo(World, id, deadline).val.canWithdrawNow
            /\ playerWithdraw(World, sender, id, deadline, {}).err = ""
            /\ ~getWithdrawalInfo(World, id, deadline - 1).val.canWithdrawNow
            /\ getWithdrawalInfo(World, id, deadline - 1).val.timeUntilWithdrawal = 1

\* C40: the abandonment view agrees with the close guard.  At every clock value,
\* abandoned of isGameAbandoned holds iff closeGame returns for a caller other than the
\* creator; it is false for a game that is not open, has no players, or was never
\* opened.
C40_AbandonmentViewAgrees ==
    \A id \in GameIds :
        LET g == games[id]
            deadline == g.openTime + CREATOR_TIMEOUT
        IN  Exists(g) =>
                \A now \in AnyTime \cup {deadline - 1, deadline} :
                    LET view == isGameAbandoned(World, id, now) IN
                    /\ view.err = ""
                    /\ \A sender \in Addr \ {g.creator} :
                           view.val.abandoned <=> closeGame(World, sender, id, now).err = ""
                    /\ (~g.open \/ Len(g.players) = 0 \/ ~g.hasOpened) => ~view.val.abandoned

\* An open game with a player at its abandonment deadline: the view says abandoned and
\* an account that is not the creator can close it; one second earlier neither holds.
C40_Witness ==
    \E id \in GameIds, sender \in Addr :
        LET g == games[id]
            deadline == g.openTime + CREATOR_TIMEOUT
        IN  /\ g.open /\ Len(g.players) > 0 /\ sender # g.creator
            /\ blockTimestamp = deadline
            /\ isGameAbandoned(World, id, deadline).val.abandoned
            /\ closeGame(World, sender, id, deadline).err = ""
            /\ ~isGameAbandoned(World, id, deadline - 1).val.abandoned
            /\ isGameAbandoned(World, id, deadline - 1).val.timeUntilAbandonmentTimeout = 1

====
